---- MODULE Spec2Model ----
(***************************************************************************)
(* The per-frame simulation of the Space Invaders scene                    *)
(* (space_invaders/scenes/space_invaders.py): the world, and one action    *)
(* per system step, scheduled by ascending `order` within a frame.         *)
(*                                                                         *)
(* Units: time in centiseconds (0.20 s is 20), lengths in pixels, speeds   *)
(* in pixels per second.  An optional value (None or v) is the sequence    *)
(* << >> or << v >>.  Object identity (Python id()) is an `id` field.      *)
(***************************************************************************)
EXTENDS Integers, Sequences, FiniteSets, TLC

\* ------------------------------------------------------------------------
\* Bounds of the exploration
\* ------------------------------------------------------------------------
MaxFrames == 2
MaxDtSteps == 2

\* ------------------------------------------------------------------------
\* Program constants
\* ------------------------------------------------------------------------
vw == 800
vh == 600
ship_w == 40
ship_h == 20
ship_speed == 300
ship_fire_cooldown == 20
bullet_w == 4
bullet_h == 10
bullet_speed == 520
alien_w == 38
alien_h == 28
alien_speed == 10
drop_step == 18
explosion_time == 20
ship_explosion_time == 45
max_alien_bullets == 2
alien_fire_cooldown_min == 80
alien_fire_cooldown_max == 160
alien_fire_retry == 15
shooter_cd_min == 80
shooter_cd_max == 200
proj_w == 6
proj_h == 14
proj_speed_A == 400
proj_speed_B == 350
proj_speed_C == 300
omega_cooldown == 250
omega_width == 36
charge_time == 80
fire_time == 120
missile_cooldown == 150
missile_w == 14
missile_h == 22
missile_kick == 250
missile_speed == 520
shield_duration == 100
shield_cooldown == 200
shield_scale_pct == 135
shelter_w == 60
shelter_h == 40
max_damage == 9
destroy_on_max == FALSE
fx_ttl == 12
fx_size == 24
fx_off == 8
TexPlayer == 1

\* The frame times offered to a frame: 0, half the explosion time, ... up to
\* MaxDtSteps halves (so that a frame can outlast an explosion).
DtSet == { k * (explosion_time \div 2) : k \in 0..MaxDtSteps }

\* ------------------------------------------------------------------------
\* Pure helpers
\* ------------------------------------------------------------------------
Max(a, b) == IF a >= b THEN a ELSE b
Min(a, b) == IF a <= b THEN a ELSE b
Abs(a) == IF a >= 0 THEN a ELSE -a

None == << >>
Some(v) == << v >>
IsNone(o) == o = << >>
Val(o) == o[1]

\* Velocity2D.advance on one axis: v pixels per second over dt centiseconds.
Advance(p, v, dt) == p + (v * dt) \div 100

\* RectCollider(position, size)
Rect(e) == [x |-> e.x, y |-> e.y, w |-> e.w, h |-> e.h]

\* RectCollider.intersects: axis-aligned overlap of two rectangles.
Intersects(a, b) ==
    /\ a.x < b.x + b.w
    /\ b.x < a.x + a.w
    /\ a.y < b.y + b.h
    /\ b.y < a.y + a.h

\* The indices of a list.
Idx(s) == 1..Len(s)

\* alive_by_id.get(target_id): the non-exploding alien of that identity.
AliveById(as, tid) ==
    IF IsNone(tid) THEN None
    ELSE LET I == { i \in Idx(as) : ~as[i].exploding /\ as[i].id = Val(tid) }
         IN  IF I = {} THEN None ELSE Some(CHOOSE i \in I : TRUE)

\* dist2 ** 0.5 for dist2 = dx*dx + dy*dy, rounded down to a whole pixel.
Dist(dx, dy) ==
    CHOOSE k \in 0..(Abs(dx) + Abs(dy)) :
        k * k <= dx * dx + dy * dy /\ dx * dx + dy * dy < (k + 1) * (k + 1)

\* ------------------------------------------------------------------------
\* State
\* ------------------------------------------------------------------------
VARIABLES
    frame,               \* number of frames started
    dt,                  \* ctx.dt of the current frame
    intent,              \* ctx.intent of the current frame
    keys,                \* the keys the player uses in this run
    pipeline,            \* the systems the scene registered in its pipeline
    done,                \* the systems whose turn has come in the current frame
    crashed,             \* an IndexError was raised
    next_id,             \* identity of the next object created
    hits,                \* ids of the bullets/missiles a collision system
                         \* marked dead in the current frame
    orphans,             \* ids of the live missiles whose target had left
                         \* the alive set when the current frame began
    ship, aliens, aliens_direction, bullets, missiles, shelters, effects,
    ship_fire_timer, alien_fire_timer,
    omega_active, omega_timer, omega_charge_timer, omega_x, omega_cd_timer,
    missile_targeting, missile_target_idx, missile_cd_timer,
    shield_active, shield_timer, shield_cd_timer

ctl == << frame, dt, intent, keys, pipeline, crashed, orphans >>
omegaVars == << omega_active, omega_timer, omega_charge_timer, omega_x,
                omega_cd_timer >>
targetVars == << missile_targeting, missile_target_idx, missile_cd_timer >>
shieldVars == << shield_active, shield_timer, shield_cd_timer >>
vars == << ctl, done, next_id, hits, ship, aliens, aliens_direction, bullets,
           missiles, shelters, effects, ship_fire_timer, alien_fire_timer,
           omegaVars, targetVars, shieldVars >>

\* ------------------------------------------------------------------------
\* The pipeline: every system of the scene with its `order`
\* ------------------------------------------------------------------------
Order ==
    [ ShipSystem |-> 20, MissileTargetSystem |-> 21, ShieldSystem |-> 22,
      BulletSpawnSystem |-> 25, MissileSpawnSystem |-> 26, AlienSystem |-> 30,
      AlienFireSystem |-> 32, OmegaRaySystem |-> 33, BulletMoveSystem |-> 35,
      BulletCullSystem |-> 36, MissileHomingSystem |-> 40,
      BulletMissileCollisionSystem |-> 41, BulletBulletCollisionSystem |-> 42,
      BulletShelterCollisionSystem |-> 43, BulletShieldCollisionSystem |-> 44,
      OmegaRayDamageSystem |-> 44, BulletAlienCollisionSystem |-> 45,
      BulletShipCollisionSystem |-> 45, MissileAlienCollisionSystem |-> 45,
      ShipExplosionSystem |-> 46, ExplosionSystem |-> 46,
      MissileCullSystem |-> 47, EffectsSystem |-> 90,
      SpaceInvadersRenderSystem |-> 100 ]

Systems == DOMAIN Order

\* A system steps once per frame, after every system of smaller order;
\* systems of equal order step in either order.
Ready(s) ==
    /\ ~crashed
    /\ s \notin done
    /\ \A t \in Systems \ done : Order[t] >= Order[s]

Ran(s) == done' = done \cup {s}

FrameOver == done = Systems

\* The turn of a system the scene did not register: nothing steps.
Skipped ==
    UNCHANGED << ctl, next_id, hits, ship, aliens, aliens_direction, bullets,
                 missiles, shelters, effects, ship_fire_timer, alien_fire_timer,
                 omegaVars, targetVars, shieldVars >>

\* ------------------------------------------------------------------------
\* SpaceInvadersInputSystem: the intent built from the keys held or pressed
\* ------------------------------------------------------------------------
AllKeys == {"LEFT", "RIGHT", "SPACE", "O", "T", "A", "D", "M", "W", "S", "C"}

IntentOf(K) ==
    [ move_ship_left        |-> IF "LEFT" \in K THEN 1 ELSE 0,
      move_ship_right       |-> IF "RIGHT" \in K THEN 1 ELSE 0,
      fire_bullet           |-> "SPACE" \in K,
      fire_omega_ray        |-> "O" \in K,
      toggle_missile_target |-> "T" \in K,
      missile_target_left   |-> "A" \in K,
      missile_target_right  |-> "D" \in K,
      missile_launch        |-> "M" \in K,
      missile_target_up     |-> "W" \in K,
      missile_target_down   |-> "S" \in K,
      shield_toggle         |-> "C" \in K ]

\* A new frame: the driver builds the tick context with this frame's dt and
\* the input system steps first.
BeginFrame ==
    /\ ~crashed
    /\ FrameOver
    /\ frame < MaxFrames
    /\ frame' = frame + 1
    /\ done' = {}
    /\ hits' = {}
    /\ orphans' = { missiles[i].id : i \in { k \in Idx(missiles) :
                       /\ missiles[k].alive
                       /\ ~IsNone(missiles[k].target_id)
                       /\ IsNone(AliveById(aliens, missiles[k].target_id)) } }
    /\ \E d \in DtSet : dt' = d
    /\ \E K \in SUBSET keys : intent' = IntentOf(K)
    /\ UNCHANGED << keys, pipeline, crashed, next_id, ship, aliens, aliens_direction,
                    bullets, missiles, shelters, effects, ship_fire_timer,
                    alien_fire_timer, omegaVars, targetVars, shieldVars >>

\* spawn_effect: append a transient marker (the scene loads every texture).
spawn_effect(fx, x, y) == Append(fx, [x |-> x, y |-> y, w |-> fx_size,
                                      h |-> fx_size, ttl |-> fx_ttl])

\* ------------------------------------------------------------------------
\* ShipSystem (order 20)
\* ------------------------------------------------------------------------
ShipClampBeforeMove(x, move_x, d) ==
    Advance(Max(0, Min(vw - ship_w, x)), move_x * ship_speed, d)

\* velocity.x = move_x * speed; body.step(dt); clamp the UPDATED position.
ShipNextX(x, move_x, d) ==
    Max(0, Min(vw - ship_w, Advance(x, move_x * ship_speed, d)))

ShipSystem_step ==
    /\ Ready("ShipSystem") /\ Ran("ShipSystem")
    /\ IF "ShipSystem" \in pipeline
       THEN
            /\ ship' = [ship EXCEPT !.x =
                   ShipNextX(ship.x, intent.move_ship_right - intent.move_ship_left, dt)]
            /\ UNCHANGED << ctl, next_id, hits, aliens, aliens_direction, bullets,
                            missiles, shelters, effects, ship_fire_timer,
                            alien_fire_timer, omegaVars, targetVars, shieldVars >>
       ELSE Skipped

\* ------------------------------------------------------------------------
\* MissileTargetSystem (order 21)
\* ------------------------------------------------------------------------
NotExploding(as) == SelectSeq(as, LAMBDA a : ~a.exploding)

\* find_in_dir: the candidates strictly on the requested side of cur, scored
\* manhattan (+1000 off the axis); the first of least score in list order.
DirOk(d, want) == want = 0 \/ (d # 0 /\ ((d > 0) = (want > 0)))

\* A score without the off-axis penalty: the nearest candidate wins.
ScoreNoAxis(a, cur, drow, dcol) ==
    Abs(a.row - cur.row) + Abs(a.col - cur.col)

Score(a, cur, drow, dcol) ==
    LET same_axis == (dcol # 0 /\ a.row = cur.row) \/ (drow # 0 /\ a.col = cur.col)
    IN  Abs(a.row - cur.row) + Abs(a.col - cur.col)
        + (IF same_axis THEN 0 ELSE 1000)

find_in_dir(alive, cur_idx, drow, dcol) ==
    LET cur == alive[cur_idx + 1]
        cand == { i \in Idx(alive) :
                    /\ alive[i].id # cur.id
                    /\ DirOk(alive[i].row - cur.row, drow)
                    /\ DirOk(alive[i].col - cur.col, dcol) }
        best == { i \in cand : \A j \in cand :
                    Score(alive[i], cur, drow, dcol)
                        <= Score(alive[j], cur, drow, dcol) }
    IN  IF cand = {} THEN None
        ELSE Some((CHOOSE i \in best : \A j \in best : i <= j) - 1)

\* A step that leaves targeting on an empty roster but keeps the stale cursor.
MissileTargetStaleCursor(targeting, idx, alive, it) ==
    IF Len(alive) = 0 THEN [targeting |-> FALSE, idx |-> idx]
    ELSE IF it.toggle_missile_target THEN
        [ targeting |-> ~targeting,
          idx |-> IF ~targeting /\ (IsNone(idx) \/ Val(idx) >= Len(alive))
                  THEN Some(0) ELSE idx ]
    ELSE IF ~targeting THEN [targeting |-> targeting, idx |-> idx]
    ELSE
        LET i0 == IF IsNone(idx) THEN 0 ELSE Val(idx)
            i1 == Max(0, Min(Len(alive) - 1, i0))
            nxt == IF it.missile_target_left THEN find_in_dir(alive, i1, 0, -1)
                   ELSE IF it.missile_target_right THEN find_in_dir(alive, i1, 0, 1)
                   ELSE IF it.missile_target_up THEN find_in_dir(alive, i1, -1, 0)
                   ELSE IF it.missile_target_down THEN find_in_dir(alive, i1, 1, 0)
                   ELSE None
        IN  [ targeting |-> TRUE,
              idx |-> IF IsNone(nxt) THEN Some(i1) ELSE nxt ]

\* A targeting step that trusts the cursor it finds: no reset on entering
\* targeting mode and no clamping while in it.
MissileTargetTrustingCursor(targeting, idx, alive, it) ==
    IF Len(alive) = 0 THEN [targeting |-> FALSE, idx |-> None]
    ELSE IF it.toggle_missile_target THEN
        [ targeting |-> ~targeting,
          idx |-> IF ~targeting /\ IsNone(idx) THEN Some(0) ELSE idx ]
    ELSE IF ~targeting THEN [targeting |-> targeting, idx |-> idx]
    ELSE
        LET i0 == IF IsNone(idx) THEN 0 ELSE Val(idx)
            i1 == Max(0, Min(Len(alive) - 1, i0))
            nxt == IF it.missile_target_left THEN find_in_dir(alive, i1, 0, -1)
                   ELSE IF it.missile_target_right THEN find_in_dir(alive, i1, 0, 1)
                   ELSE IF it.missile_target_up THEN find_in_dir(alive, i1, -1, 0)
                   ELSE IF it.missile_target_down THEN find_in_dir(alive, i1, 1, 0)
                   ELSE None
        IN  [ targeting |-> TRUE,
              idx |-> IF IsNone(nxt) THEN Some(i0) ELSE nxt ]

\* The targeting flag and cursor after the step.
MissileTarget(targeting, idx, alive, it) ==
    IF Len(alive) = 0 THEN [targeting |-> FALSE, idx |-> None]
    ELSE IF it.toggle_missile_target THEN
        [ targeting |-> ~targeting,
          idx |-> IF ~targeting /\ (IsNone(idx) \/ Val(idx) >= Len(alive))
                  THEN Some(0) ELSE idx ]
    ELSE IF ~targeting THEN [targeting |-> targeting, idx |-> idx]
    ELSE
        LET i0 == IF IsNone(idx) THEN 0 ELSE Val(idx)
            i1 == Max(0, Min(Len(alive) - 1, i0))
            nxt == IF it.missile_target_left THEN find_in_dir(alive, i1, 0, -1)
                   ELSE IF it.missile_target_right THEN find_in_dir(alive, i1, 0, 1)
                   ELSE IF it.missile_target_up THEN find_in_dir(alive, i1, -1, 0)
                   ELSE IF it.missile_target_down THEN find_in_dir(alive, i1, 1, 0)
                   ELSE None
        IN  [ targeting |-> TRUE,
              idx |-> IF IsNone(nxt) THEN Some(i1) ELSE nxt ]

MissileTargetSystem_step ==
    /\ Ready("MissileTargetSystem") /\ Ran("MissileTargetSystem")
    /\ IF "MissileTargetSystem" \in pipeline
       THEN
            /\ missile_cd_timer' = IF missile_cd_timer > 0
                                   THEN Max(0, missile_cd_timer - dt)
                                   ELSE missile_cd_timer
            /\ LET r == MissileTarget(missile_targeting, missile_target_idx,
                                      NotExploding(aliens), intent)
               IN  /\ missile_targeting' = r.targeting
                   /\ missile_target_idx' = r.idx
            /\ UNCHANGED << ctl, next_id, hits, ship, aliens, aliens_direction,
                            bullets, missiles, shelters, effects, ship_fire_timer,
                            alien_fire_timer, omegaVars, shieldVars >>
       ELSE Skipped

\* ------------------------------------------------------------------------
\* ShieldSystem (order 22)
\* ------------------------------------------------------------------------
\* A shield that re-arms on every toggle, whatever its flag and cooldown say.
ShieldIgnoringGate(active, timer, cd, toggle, d) ==
    IF toggle
    THEN [active |-> TRUE, timer |-> shield_duration, cd |-> shield_cooldown]
    ELSE [active |-> active, timer |-> timer, cd |-> cd]

\* The step's result: both timers are counted down first, the shield is
\* switched off when its timer has run out, and only then is the toggle tested.
Shield(active, timer, cd, toggle, d) ==
    LET cd1 == IF cd > 0 THEN Max(0, cd - d) ELSE cd
        t1 == IF active THEN Max(0, timer - d) ELSE timer
        a1 == active /\ ~(t1 <= 0)
    IN  IF toggle /\ ~a1 /\ cd1 <= 0
        THEN [active |-> TRUE, timer |-> shield_duration, cd |-> shield_cooldown]
        ELSE [active |-> a1, timer |-> t1, cd |-> cd1]

ShieldSystem_step ==
    /\ Ready("ShieldSystem") /\ Ran("ShieldSystem")
    /\ IF "ShieldSystem" \in pipeline
       THEN
            /\ LET r == Shield(shield_active, shield_timer, shield_cd_timer,
                               intent.shield_toggle, dt)
               IN  /\ shield_active' = r.active
                   /\ shield_timer' = r.timer
                   /\ shield_cd_timer' = r.cd
            /\ UNCHANGED << ctl, next_id, hits, ship, aliens, aliens_direction,
                            bullets, missiles, shelters, effects, ship_fire_timer,
                            alien_fire_timer, omegaVars, targetVars >>
       ELSE Skipped

\* ------------------------------------------------------------------------
\* BulletSpawnSystem (order 25)
\* ------------------------------------------------------------------------
ShipFireIgnoringTimer(timer, fire, d) ==
    LET t1 == IF timer > 0 THEN Max(0, timer - d) ELSE timer
    IN  IF fire THEN [timer |-> ship_fire_cooldown, spawn |-> TRUE]
        ELSE [timer |-> t1, spawn |-> FALSE]

\* A gun that is ready again after half the cooldown.
ShipFireHalfCooldown(timer, fire, d) ==
    LET t1 == IF timer > 0 THEN Max(0, timer - d) ELSE timer
    IN  IF ~fire THEN [timer |-> t1, spawn |-> FALSE]
        ELSE IF t1 > 0 THEN [timer |-> t1, spawn |-> FALSE]
        ELSE [timer |-> ship_fire_cooldown \div 2, spawn |-> TRUE]

\* The cooldown timer after the step and whether a bullet is spawned.
ShipFire(timer, fire, d) ==
    LET t1 == IF timer > 0 THEN Max(0, timer - d) ELSE timer
    IN  IF ~fire THEN [timer |-> t1, spawn |-> FALSE]
        ELSE IF t1 > 0 THEN [timer |-> t1, spawn |-> FALSE]
        ELSE [timer |-> ship_fire_cooldown, spawn |-> TRUE]

\* The bullet spawned from the ship's top-center.
ShipBullet(s, id) ==
    [ id |-> id, x |-> s.x + ship_w \div 2 - bullet_w \div 2, y |-> s.y - bullet_h,
      w |-> bullet_w, h |-> bullet_h, vy |-> -bullet_speed, owner |-> "ship",
      alive |-> TRUE ]

BulletSpawnSystem_step ==
    /\ Ready("BulletSpawnSystem") /\ Ran("BulletSpawnSystem")
    /\ IF "BulletSpawnSystem" \in pipeline
       THEN
            /\ LET r == ShipFire(ship_fire_timer, intent.fire_bullet, dt)
               IN  /\ ship_fire_timer' = r.timer
                   /\ bullets' = IF r.spawn THEN Append(bullets, ShipBullet(ship, next_id))
                                 ELSE bullets
                   /\ next_id' = IF r.spawn THEN next_id + 1 ELSE next_id
            /\ UNCHANGED << ctl, hits, ship, aliens, aliens_direction, missiles,
                            shelters, effects, alien_fire_timer, omegaVars, targetVars,
                            shieldVars >>
       ELSE Skipped

\* ------------------------------------------------------------------------
\* MissileSpawnSystem (order 26)
\* ------------------------------------------------------------------------
NewMissile(s, target, id) ==
    [ id |-> id, x |-> s.x + ship_w \div 2 - missile_w \div 2, y |-> s.y - missile_h,
      w |-> missile_w, h |-> missile_h, vx |-> 0, vy |-> -missile_kick,
      alive |-> TRUE, target_id |-> Some(target.id), speed |-> missile_speed ]

\* A launcher that does not wait for the launch cooldown.
LaunchesIgnoringCooldown(it, targeting, cd, alive, idx) ==
    /\ it.missile_launch
    /\ targeting
    /\ Len(alive) > 0
    /\ ~IsNone(idx)

\* The launch is honoured: launch intent, targeting on, cooldown elapsed, a
\* non-exploding alien exists and the cursor is set.
Launches(it, targeting, cd, alive, idx) ==
    /\ it.missile_launch
    /\ targeting
    /\ ~(cd > 0)
    /\ Len(alive) > 0
    /\ ~IsNone(idx)

MissileSpawnSystem_step ==
    /\ Ready("MissileSpawnSystem") /\ Ran("MissileSpawnSystem")
    /\ IF "MissileSpawnSystem" \in pipeline
       THEN
            /\ LET alive == NotExploding(aliens)
               IN  IF ~Launches(intent, missile_targeting, missile_cd_timer, alive,
                                missile_target_idx)
                   THEN UNCHANGED << crashed, missiles, next_id, targetVars >>
                   ELSE IF Val(missile_target_idx) >= Len(alive)
                   THEN \* alive[missile_target_idx] raises IndexError
                        /\ crashed' = TRUE
                        /\ UNCHANGED << missiles, next_id, targetVars >>
                   ELSE /\ missiles' = Append(missiles,
                               NewMissile(ship, alive[Val(missile_target_idx) + 1], next_id))
                        /\ next_id' = next_id + 1
                        /\ missile_cd_timer' = missile_cooldown
                        /\ missile_targeting' = FALSE
                        /\ UNCHANGED << crashed, missile_target_idx >>
            /\ UNCHANGED << frame, dt, intent, keys, pipeline, orphans, hits, ship, aliens,
                            aliens_direction, bullets, shelters, effects,
                            ship_fire_timer, alien_fire_timer, omegaVars, shieldVars >>
       ELSE Skipped

\* A wall test on the positions the aliens have, not the ones they would move to.
HitWallNoLookAhead(as, dir, d) ==
    \E i \in Idx(as) : as[i].x <= 0 \/ as[i].x + as[i].w >= vw

\* ------------------------------------------------------------------------
\* AlienSystem (order 30)
\* ------------------------------------------------------------------------
\* The look-ahead: some alien's predicted x reaches a wall this tick.
HitWall(as, dir, d) ==
    \E i \in Idx(as) :
        LET next_x == Advance(as[i].x, dir * as[i].speed, d)
        IN  next_x <= 0 \/ next_x + as[i].w >= vw

AlienBouncePerAlien(as, dir, d) ==
    [ dir |-> IF HitWall(as, dir, d) THEN -dir ELSE dir,
      aliens |-> [ i \in Idx(as) |->
          LET next_x == Advance(as[i].x, dir * as[i].speed, d)
          IN  IF next_x <= 0 \/ next_x + as[i].w >= vw
              THEN [as[i] EXCEPT !.vx = dir * as[i].speed, !.y = @ + drop_step]
              ELSE [as[i] EXCEPT !.vx = dir * as[i].speed, !.x = next_x] ] ]

\* A formation whose exploding aliens stay where they were hit.
AlienMoveLeavingWrecks(as, dir, d) ==
    IF Len(as) = 0 THEN [dir |-> dir, aliens |-> as]
    ELSE IF HitWall(as, dir, d)
    THEN [ dir |-> -dir,
           aliens |-> [ i \in Idx(as) |->
               IF as[i].exploding THEN as[i]
               ELSE [as[i] EXCEPT !.vx = dir * as[i].speed, !.y = @ + drop_step] ] ]
    ELSE [ dir |-> dir,
           aliens |-> [ i \in Idx(as) |->
               IF as[i].exploding THEN as[i]
               ELSE [as[i] EXCEPT !.vx = dir * as[i].speed,
                                  !.x = Advance(@, dir * as[i].speed, d)] ] ]

\* The formation and its direction after the step.
AlienMove(as, dir, d) ==
    IF Len(as) = 0 THEN [dir |-> dir, aliens |-> as]
    ELSE IF HitWall(as, dir, d)
    THEN [ dir |-> -dir,
           aliens |-> [ i \in Idx(as) |->
               [as[i] EXCEPT !.vx = dir * as[i].speed, !.y = @ + drop_step] ] ]
    ELSE [ dir |-> dir,
           aliens |-> [ i \in Idx(as) |->
               [as[i] EXCEPT !.vx = dir * as[i].speed,
                             !.x = Advance(@, dir * as[i].speed, d)] ] ]

AlienSystem_step ==
    /\ Ready("AlienSystem") /\ Ran("AlienSystem")
    /\ IF "AlienSystem" \in pipeline
       THEN
            /\ LET r == AlienMove(aliens, aliens_direction, dt)
               IN  /\ aliens' = r.aliens
                   /\ aliens_direction' = r.dir
            /\ UNCHANGED << ctl, next_id, hits, ship, bullets, missiles, shelters,
                            effects, ship_fire_timer, alien_fire_timer, omegaVars,
                            targetVars, shieldVars >>
       ELSE Skipped

\* ------------------------------------------------------------------------
\* AlienFireSystem (order 32)
\* ------------------------------------------------------------------------
\* A selection that takes any ready alien of a column, not the lowest one.
any_by_column(as) ==
    { i \in Idx(as) : ~as[i].exploding /\ ~(as[i].fire_cd > 0) }

\* _bottom_most_by_column: per column, the non-exploding alien with
\* fire_cd = 0 of largest row (the first met, among equals).
bottom_most_by_column(as) ==
    { i \in Idx(as) :
        /\ ~as[i].exploding
        /\ ~(as[i].fire_cd > 0)
        /\ \A j \in Idx(as) :
              (~as[j].exploding /\ ~(as[j].fire_cd > 0) /\ as[j].col = as[i].col)
                  => (as[j].row < as[i].row \/ (as[j].row = as[i].row /\ i <= j)) }

\* _infer_rows: max row index + 1
infer_rows(as) ==
    IF Len(as) = 0 THEN 0
    ELSE (CHOOSE r \in {as[i].row : i \in Idx(as)} :
              \A i \in Idx(as) : as[i].row <= r) + 1

\* _projectile_kind_for_row
projectile_kind_for_row(row, total_rows) ==
    IF total_rows <= 0 THEN "None"
    ELSE IF row >= total_rows - 2 THEN "A"
    ELSE IF total_rows >= 4 /\ row \in {total_rows - 4, total_rows - 3} THEN "B"
    ELSE IF row = 0 THEN "C"
    ELSE "B"

\* projectile_specs[kind].speed
ProjSpeed(kind) ==
    CASE kind = "A" -> proj_speed_A
      [] kind = "B" -> proj_speed_B
      [] kind = "C" -> proj_speed_C

AlienBullet(a, kind, id) ==
    [ id |-> id, x |-> a.x + a.w \div 2 - proj_w \div 2, y |-> a.y + a.h,
      w |-> proj_w, h |-> proj_h, vy |-> ProjSpeed(kind), owner |-> "alien",
      alive |-> TRUE ]

ActiveAlienBullets(bs) ==
    Cardinality({ i \in Idx(bs) : bs[i].alive /\ bs[i].owner = "alien" })

\* A gate that never closes.
SaturatedNever(bs) == FALSE

SaturatedOffByOne(bs) == ActiveAlienBullets(bs) > max_alien_bullets

\* The gate: as many live alien bullets as may exist at once.
Saturated(bs) == ActiveAlienBullets(bs) >= max_alien_bullets

\* fire_cd of every alien counted down
TickFireCd(as, d) ==
    [ i \in Idx(as) |->
        IF as[i].fire_cd > 0 THEN [as[i] EXCEPT !.fire_cd = Max(0, @ - d)]
        ELSE as[i] ]

AlienFireSystem_step ==
    /\ Ready("AlienFireSystem") /\ Ran("AlienFireSystem")
    /\ IF "AlienFireSystem" \in pipeline
       THEN
            /\ IF Len(aliens) = 0
               THEN UNCHANGED << aliens, alien_fire_timer, bullets, next_id >>
               ELSE LET as1 == TickFireCd(aliens, dt)
                        t1 == alien_fire_timer - dt
                        shooters == bottom_most_by_column(as1)
                    IN  IF t1 > 0
                        THEN /\ aliens' = as1
                             /\ alien_fire_timer' = t1
                             /\ UNCHANGED << bullets, next_id >>
                        ELSE IF Saturated(bullets)
                        THEN /\ aliens' = as1
                             /\ alien_fire_timer' = alien_fire_retry
                             /\ UNCHANGED << bullets, next_id >>
                        ELSE \* random.uniform(min, max): either end of the range
                             /\ alien_fire_timer' \in
                                    {alien_fire_cooldown_min, alien_fire_cooldown_max}
                             /\ IF shooters = {}
                                THEN /\ aliens' = as1
                                     /\ UNCHANGED << bullets, next_id >>
                                ELSE \E i \in shooters :      \* random.choice
                                     \E cd \in {shooter_cd_min, shooter_cd_max} :
                                       LET kind == projectile_kind_for_row(
                                                       as1[i].row, infer_rows(as1))
                                       IN  /\ bullets' = Append(bullets,
                                                  AlienBullet(as1[i], kind, next_id))
                                           /\ next_id' = next_id + 1
                                           /\ aliens' = [as1 EXCEPT ![i].fire_cd = cd]
            /\ UNCHANGED << ctl, hits, ship, aliens_direction, missiles, shelters,
                            effects, ship_fire_timer, omegaVars, targetVars,
                            shieldVars >>
       ELSE Skipped

\* ------------------------------------------------------------------------
\* OmegaRaySystem (order 33)
\* ------------------------------------------------------------------------
\* The beam's x, locked from the ship's center.
BeamX(s) == s.x + ship_w \div 2 - omega_width \div 2

OmegaRayIgnoringCooldown(o, fire, s, d) ==
    LET cd1 == IF o.cd_timer > 0 THEN Max(0, o.cd_timer - d) ELSE o.cd_timer
    IN  IF o.active THEN
            IF o.timer - d <= 0
            THEN [o EXCEPT !.timer = o.timer - d, !.active = FALSE,
                           !.x = None, !.cd_timer = omega_cooldown]
            ELSE [o EXCEPT !.timer = o.timer - d, !.cd_timer = cd1]
        ELSE IF o.charge_timer > 0 THEN
            IF o.charge_timer - d <= 0
            THEN [o EXCEPT !.charge_timer = o.charge_timer - d, !.active = TRUE,
                           !.timer = fire_time, !.cd_timer = cd1]
            ELSE [o EXCEPT !.charge_timer = o.charge_timer - d, !.cd_timer = cd1]
        ELSE IF ~fire THEN [o EXCEPT !.cd_timer = cd1]
        ELSE [o EXCEPT !.cd_timer = cd1, !.x = Some(BeamX(s)),
                       !.charge_timer = charge_time]

OmegaRayNoCooldown(o, fire, s, d) ==
    LET cd1 == IF o.cd_timer > 0 THEN Max(0, o.cd_timer - d) ELSE o.cd_timer
    IN  IF o.active THEN
            IF o.timer - d <= 0
            THEN [o EXCEPT !.timer = o.timer - d, !.active = FALSE,
                           !.x = None, !.cd_timer = cd1]
            ELSE [o EXCEPT !.timer = o.timer - d, !.cd_timer = cd1]
        ELSE IF o.charge_timer > 0 THEN
            IF o.charge_timer - d <= 0
            THEN [o EXCEPT !.charge_timer = o.charge_timer - d, !.active = TRUE,
                           !.timer = fire_time, !.cd_timer = cd1]
            ELSE [o EXCEPT !.charge_timer = o.charge_timer - d, !.cd_timer = cd1]
        ELSE IF ~fire THEN [o EXCEPT !.cd_timer = cd1]
        ELSE IF cd1 > 0 THEN [o EXCEPT !.cd_timer = cd1]
        ELSE [o EXCEPT !.cd_timer = cd1, !.x = Some(BeamX(s)),
                       !.charge_timer = charge_time]

\* The beam state after the step.
\* A beam that a further fire intent re-aims and recharges while it charges.
OmegaRayRetargeting(o, fire, s, d) ==
    LET cd1 == IF o.cd_timer > 0 THEN Max(0, o.cd_timer - d) ELSE o.cd_timer
    IN  IF o.active THEN
            IF o.timer - d <= 0
            THEN [o EXCEPT !.timer = o.timer - d, !.active = FALSE,
                           !.x = None, !.cd_timer = omega_cooldown]
            ELSE [o EXCEPT !.timer = o.timer - d, !.cd_timer = cd1]
        ELSE IF o.charge_timer > 0 /\ ~fire THEN
            IF o.charge_timer - d <= 0
            THEN [o EXCEPT !.charge_timer = o.charge_timer - d, !.active = TRUE,
                           !.timer = fire_time, !.cd_timer = cd1]
            ELSE [o EXCEPT !.charge_timer = o.charge_timer - d, !.cd_timer = cd1]
        ELSE IF ~fire THEN [o EXCEPT !.cd_timer = cd1]
        ELSE IF cd1 > 0 THEN [o EXCEPT !.cd_timer = cd1]
        ELSE [o EXCEPT !.cd_timer = cd1, !.x = Some(BeamX(s)),
                       !.charge_timer = charge_time]

\* A beam that starts charging on a fire intent although it is cooling down.
OmegaRayChargingWhileCooling(o, fire, s, d) ==
    LET cd1 == IF o.cd_timer > 0 THEN Max(0, o.cd_timer - d) ELSE o.cd_timer
    IN  IF o.active THEN
            IF o.timer - d <= 0
            THEN [o EXCEPT !.timer = o.timer - d, !.active = FALSE,
                           !.x = None, !.cd_timer = omega_cooldown]
            ELSE [o EXCEPT !.timer = o.timer - d, !.cd_timer = cd1]
        ELSE IF o.charge_timer > 0 THEN
            IF o.charge_timer - d <= 0
            THEN [o EXCEPT !.charge_timer = o.charge_timer - d, !.active = TRUE,
                           !.timer = fire_time, !.cd_timer = cd1]
            ELSE [o EXCEPT !.charge_timer = o.charge_timer - d, !.cd_timer = cd1]
        ELSE IF ~fire THEN [o EXCEPT !.cd_timer = cd1]
        ELSE [o EXCEPT !.cd_timer = cd1, !.x = Some(BeamX(s)),
                       !.charge_timer = charge_time]

\* A beam whose cooldown timer is never counted down.
OmegaRayFrozenCooldown(o, fire, s, d) ==
    LET cd1 == o.cd_timer
    IN  IF o.active THEN
            IF o.timer - d <= 0
            THEN [o EXCEPT !.timer = o.timer - d, !.active = FALSE,
                           !.x = None, !.cd_timer = omega_cooldown]
            ELSE [o EXCEPT !.timer = o.timer - d, !.cd_timer = cd1]
        ELSE IF o.charge_timer > 0 THEN
            IF o.charge_timer - d <= 0
            THEN [o EXCEPT !.charge_timer = o.charge_timer - d, !.active = TRUE,
                           !.timer = fire_time, !.cd_timer = cd1]
            ELSE [o EXCEPT !.charge_timer = o.charge_timer - d, !.cd_timer = cd1]
        ELSE IF ~fire THEN [o EXCEPT !.cd_timer = cd1]
        ELSE IF cd1 > 0 THEN [o EXCEPT !.cd_timer = cd1]
        ELSE [o EXCEPT !.cd_timer = cd1, !.x = Some(BeamX(s)),
                       !.charge_timer = charge_time]

OmegaRay(o, fire, s, d) ==
    LET cd1 == IF o.cd_timer > 0 THEN Max(0, o.cd_timer - d) ELSE o.cd_timer
    IN  IF o.active THEN
            IF o.timer - d <= 0
            THEN [o EXCEPT !.timer = o.timer - d, !.active = FALSE,
                           !.x = None, !.cd_timer = omega_cooldown]
            ELSE [o EXCEPT !.timer = o.timer - d, !.cd_timer = cd1]
        ELSE IF o.charge_timer > 0 THEN
            IF o.charge_timer - d <= 0
            THEN [o EXCEPT !.charge_timer = o.charge_timer - d, !.active = TRUE,
                           !.timer = fire_time, !.cd_timer = cd1]
            ELSE [o EXCEPT !.charge_timer = o.charge_timer - d, !.cd_timer = cd1]
        ELSE IF ~fire THEN [o EXCEPT !.cd_timer = cd1]
        ELSE IF cd1 > 0 THEN [o EXCEPT !.cd_timer = cd1]
        ELSE [o EXCEPT !.cd_timer = cd1, !.x = Some(BeamX(s)),
                       !.charge_timer = charge_time]

Omega == [ active |-> omega_active, timer |-> omega_timer,
           charge_timer |-> omega_charge_timer, x |-> omega_x,
           cd_timer |-> omega_cd_timer ]

OmegaRaySystem_step ==
    /\ Ready("OmegaRaySystem") /\ Ran("OmegaRaySystem")
    /\ IF "OmegaRaySystem" \in pipeline
       THEN
            /\ LET o == OmegaRay(Omega, intent.fire_omega_ray, ship, dt)
               IN  /\ omega_active' = o.active
                   /\ omega_timer' = o.timer
                   /\ omega_charge_timer' = o.charge_timer
                   /\ omega_x' = o.x
                   /\ omega_cd_timer' = o.cd_timer
            /\ UNCHANGED << ctl, next_id, hits, ship, aliens, aliens_direction,
                            bullets, missiles, shelters, effects, ship_fire_timer,
                            alien_fire_timer, targetVars, shieldVars >>
       ELSE Skipped

\* ------------------------------------------------------------------------
\* BulletMoveSystem (order 35), BulletCullSystem (order 36)
\* ------------------------------------------------------------------------
BulletMoveSystem_step ==
    /\ Ready("BulletMoveSystem") /\ Ran("BulletMoveSystem")
    /\ IF "BulletMoveSystem" \in pipeline
       THEN
            /\ bullets' = [ i \in Idx(bullets) |->
                   IF bullets[i].alive
                   THEN [bullets[i] EXCEPT !.y = Advance(@, bullets[i].vy, dt)]
                   ELSE bullets[i] ]
            /\ UNCHANGED << ctl, next_id, hits, ship, aliens, aliens_direction,
                            missiles, shelters, effects, ship_fire_timer,
                            alien_fire_timer, omegaVars, targetVars, shieldVars >>
       ELSE Skipped

\* The rectangle lies fully outside the viewport.
OutOfView(e) == e.y + e.h < 0 \/ e.y > vh \/ e.x + e.w < 0 \/ e.x > vw

\* The entities kept by a cull: alive and not outside the viewport.
Cull(es) == SelectSeq(es, LAMBDA e : e.alive /\ ~OutOfView(e))

BulletCullSystem_step ==
    /\ Ready("BulletCullSystem") /\ Ran("BulletCullSystem")
    /\ IF "BulletCullSystem" \in pipeline
       THEN
            /\ bullets' = Cull(bullets)
            /\ UNCHANGED << ctl, next_id, hits, ship, aliens, aliens_direction,
                            missiles, shelters, effects, ship_fire_timer,
                            alien_fire_timer, omegaVars, targetVars, shieldVars >>
       ELSE Skipped

\* ------------------------------------------------------------------------
\* MissileHomingSystem (order 40)
\* ------------------------------------------------------------------------
\* Re-aim at the target's center (unit vector times speed), then move.
Home(m, as, d) ==
    LET t == AliveById(as, m.target_id)
        dx == (as[Val(t)].x + as[Val(t)].w \div 2) - (m.x + m.w \div 2)
        dy == (as[Val(t)].y + as[Val(t)].h \div 2) - (m.y + m.h \div 2)
        aim == ~IsNone(t) /\ dx * dx + dy * dy > 0
        vx1 == IF aim THEN (dx * m.speed) \div Dist(dx, dy) ELSE m.vx
        vy1 == IF aim THEN (dy * m.speed) \div Dist(dx, dy) ELSE m.vy
    IN  [m EXCEPT !.vx = vx1, !.vy = vy1,
                  !.x = Advance(@, vx1, d), !.y = Advance(@, vy1, d)]

MissileHomingSystem_step ==
    /\ Ready("MissileHomingSystem") /\ Ran("MissileHomingSystem")
    /\ IF "MissileHomingSystem" \in pipeline
       THEN
            /\ missiles' = [ i \in Idx(missiles) |->
                   IF missiles[i].alive THEN Home(missiles[i], aliens, dt)
                   ELSE missiles[i] ]
            /\ UNCHANGED << ctl, next_id, hits, ship, aliens, aliens_direction,
                            bullets, shelters, effects, ship_fire_timer,
                            alien_fire_timer, omegaVars, targetVars, shieldVars >>
       ELSE Skipped

\* ------------------------------------------------------------------------
\* Collision systems (orders 41..45).  Each loop is a fold over the bullets
\* (or missiles) in list order; st carries the lists as mutated so far.
\* ------------------------------------------------------------------------
\* The first index of a non-empty set of indices.
First(I) == CHOOSE i \in I : \A j \in I : i <= j

Kill(es, i) == [es EXCEPT ![i].alive = FALSE]

LiveOrDead(b, owner) == b.owner = owner

\* The test that opens every pass over the bullets: only a live bullet of
\* the given owner takes part.
Live(b, owner) == b.alive /\ b.owner = owner

\* BulletMissileCollisionSystem (order 41): ship bullet vs missile
RECURSIVE BulletMissileLoop(_, _)
BulletMissileLoop(st, i) ==
    IF i > Len(st.bs) THEN st
    ELSE LET b == st.bs[i]
             M == { j \in Idx(st.ms) :
                      st.ms[j].alive /\ Intersects(Rect(b), Rect(st.ms[j])) }
         IN  IF Live(b, "ship") /\ M # {}
             THEN BulletMissileLoop(
                      [ st EXCEPT !.bs = Kill(@, i), !.ms = Kill(@, First(M)),
                                  !.fx = spawn_effect(@, b.x - fx_off, b.y - fx_off),
                                  !.hit = @ \cup {b.id, st.ms[First(M)].id} ],
                      i + 1)
             ELSE BulletMissileLoop(st, i + 1)

BulletMissileCollisionSystem_step ==
    /\ Ready("BulletMissileCollisionSystem")
    /\ Ran("BulletMissileCollisionSystem")
    /\ IF "BulletMissileCollisionSystem" \in pipeline
       THEN
            /\ LET r == BulletMissileLoop(
                            [bs |-> bullets, ms |-> missiles, fx |-> effects, hit |-> hits], 1)
               IN  /\ bullets' = r.bs
                   /\ missiles' = r.ms
                   /\ effects' = r.fx
                   /\ hits' = r.hit
            /\ UNCHANGED << ctl, next_id, ship, aliens, aliens_direction, shelters,
                            ship_fire_timer, alien_fire_timer, omegaVars, targetVars,
                            shieldVars >>
       ELSE Skipped

\* BulletBulletCollisionSystem (order 42): ship bullet vs alien bullet.  The
\* two lists are taken before the loop; liveness is re-read inside it.
RECURSIVE BulletBulletLoop(_, _, _)
BulletBulletLoop(st, sb, i) ==
    IF i > Len(st.bs) THEN st
    ELSE LET b == st.bs[i]
             A == { j \in Idx(st.bs) :
                      /\ st.bs[j].owner = "alien"
                      /\ st.bs[j].alive
                      /\ Intersects(Rect(b), Rect(st.bs[j])) }
         IN  IF i \in sb /\ b.alive /\ A # {}
             THEN BulletBulletLoop(
                      [ st EXCEPT !.bs = Kill(Kill(@, i), First(A)),
                                  !.fx = spawn_effect(@, b.x - fx_off, b.y - fx_off),
                                  !.hit = @ \cup {b.id, st.bs[First(A)].id} ],
                      sb, i + 1)
             ELSE BulletBulletLoop(st, sb, i + 1)

BulletBulletCollisionSystem_step ==
    /\ Ready("BulletBulletCollisionSystem")
    /\ Ran("BulletBulletCollisionSystem")
    /\ IF "BulletBulletCollisionSystem" \in pipeline
       THEN
            /\ LET ship_bullets == { i \in Idx(bullets) :
                                       bullets[i].alive /\ bullets[i].owner = "ship" }
                   r == BulletBulletLoop(
                            [bs |-> bullets, fx |-> effects, hit |-> hits], ship_bullets, 1)
               IN  /\ bullets' = r.bs
                   /\ effects' = r.fx
                   /\ hits' = r.hit
            /\ UNCHANGED << ctl, next_id, ship, aliens, aliens_direction, missiles,
                            shelters, ship_fire_timer, alien_fire_timer, omegaVars,
                            targetVars, shieldVars >>
       ELSE Skipped

\* BulletShelterCollisionSystem (order 43): alien bullet vs shelter
ShelterHitNoCap(sh) ==
    [sh EXCEPT !.damage = @ + 1,
               !.alive = ~(destroy_on_max /\ sh.damage + 1 >= max_damage)]

\* One hit on a shelter: damage + 1 below the cap; destroyed at the cap only
\* with destroy_on_max.
ShelterHit(sh) ==
    LET d1 == IF sh.damage < max_damage THEN sh.damage + 1 ELSE sh.damage
    IN  [sh EXCEPT !.damage = d1,
                   !.alive = IF destroy_on_max /\ d1 >= max_damage THEN FALSE ELSE @]

\* A shelter pass that stops the bullets of either owner.
RECURSIVE BulletShelterLoopAnyOwner(_, _)
BulletShelterLoopAnyOwner(st, i) ==
    IF i > Len(st.bs) THEN st
    ELSE LET b == st.bs[i]
             S == { j \in Idx(st.ss) :
                      st.ss[j].alive /\ Intersects(Rect(b), Rect(st.ss[j])) }
         IN  IF b.alive /\ S # {}
             THEN BulletShelterLoopAnyOwner(
                      [ st EXCEPT !.bs = Kill(@, i),
                                  !.ss[First(S)] = ShelterHit(@),
                                  !.fx = spawn_effect(@, b.x - fx_off, b.y - fx_off),
                                  !.hit = @ \cup {b.id} ],
                      i + 1)
             ELSE BulletShelterLoopAnyOwner(st, i + 1)

RECURSIVE BulletShelterLoop(_, _)
BulletShelterLoop(st, i) ==
    IF i > Len(st.bs) THEN st
    ELSE LET b == st.bs[i]
             S == { j \in Idx(st.ss) :
                      st.ss[j].alive /\ Intersects(Rect(b), Rect(st.ss[j])) }
         IN  IF Live(b, "alien") /\ S # {}
             THEN BulletShelterLoop(
                      [ st EXCEPT !.bs = Kill(@, i),
                                  !.ss[First(S)] = ShelterHit(@),
                                  !.fx = spawn_effect(@, b.x - fx_off, b.y - fx_off),
                                  !.hit = @ \cup {b.id} ],
                      i + 1)
             ELSE BulletShelterLoop(st, i + 1)

BulletShelterCollisionSystem_step ==
    /\ Ready("BulletShelterCollisionSystem")
    /\ Ran("BulletShelterCollisionSystem")
    /\ IF "BulletShelterCollisionSystem" \in pipeline
       THEN
            /\ LET r == BulletShelterLoop(
                            [bs |-> bullets, ss |-> shelters, fx |-> effects, hit |-> hits], 1)
               IN  /\ bullets' = r.bs
                   /\ shelters' = r.ss
                   /\ effects' = r.fx
                   /\ hits' = r.hit
            /\ UNCHANGED << ctl, next_id, ship, aliens, aliens_direction, missiles,
                            ship_fire_timer, alien_fire_timer, omegaVars, targetVars,
                            shieldVars >>
       ELSE Skipped

\* BulletShieldCollisionSystem (order 44): shield vs alien bullet.  The
\* shield rectangle is the ship's, scaled by shield_scale about its center;
\* it is compared in units of 1/200 pixel, where it is whole.
Scaled(r, k) == [x |-> k * r.x, y |-> k * r.y, w |-> k * r.w, h |-> k * r.h]

ShieldRect200(s) ==
    [ x |-> 200 * s.x + 100 * ship_w - ship_w * shield_scale_pct,
      y |-> 200 * s.y + 100 * ship_h - ship_h * shield_scale_pct,
      w |-> 2 * ship_w * shield_scale_pct,
      h |-> 2 * ship_h * shield_scale_pct ]

ShieldBlocksNothing(s, b) == FALSE

\* The bullet is one the shield intercepts.
ShieldBlocks(s, b) ==
    Live(b, "alien") /\ Intersects(ShieldRect200(s), Scaled(Rect(b), 200))

RECURSIVE BulletShieldLoop(_, _, _)
BulletShieldLoop(st, s, i) ==
    IF i > Len(st.bs) THEN st
    ELSE LET b == st.bs[i]
         IN  IF ShieldBlocks(s, b)
             THEN BulletShieldLoop(
                      [ st EXCEPT !.bs = Kill(@, i),
                                  !.fx = spawn_effect(@, b.x - fx_off, b.y - fx_off),
                                  !.hit = @ \cup {b.id} ],
                      s, i + 1)
             ELSE BulletShieldLoop(st, s, i + 1)

BulletShieldCollisionSystem_step ==
    /\ Ready("BulletShieldCollisionSystem")
    /\ Ran("BulletShieldCollisionSystem")
    /\ IF "BulletShieldCollisionSystem" \in pipeline
       THEN
            /\ LET r == IF shield_active
                        THEN BulletShieldLoop(
                                 [bs |-> bullets, fx |-> effects, hit |-> hits], ship, 1)
                        ELSE [bs |-> bullets, fx |-> effects, hit |-> hits]
               IN  /\ bullets' = r.bs
                   /\ effects' = r.fx
                   /\ hits' = r.hit
            /\ UNCHANGED << ctl, next_id, ship, aliens, aliens_direction, missiles,
                            shelters, ship_fire_timer, alien_fire_timer, omegaVars,
                            targetVars, shieldVars >>
       ELSE Skipped

\* BulletShipCollisionSystem (order 45): ship vs alien bullet
ShipRect(s) == [x |-> s.x, y |-> s.y, w |-> ship_w, h |-> ship_h]

\* A ship that can be hit while it is exploding.
ShipHittersWhileExploding(s, bs, shield) ==
    IF shield THEN {}
    ELSE { i \in Idx(bs) : Live(bs[i], "alien")
                           /\ Intersects(ShipRect(s), Rect(bs[i])) }

\* The bullets that can hit the ship in this step.
ShipHitters(s, bs, shield) ==
    IF s.exploding \/ shield THEN {}
    ELSE { i \in Idx(bs) : Live(bs[i], "alien")
                           /\ Intersects(ShipRect(s), Rect(bs[i])) }

\* A hit that remembers the appearance only after blanking it.
ShipStruckLate(s) ==
    [s EXCEPT !.exploding = TRUE, !.explode_timer = ship_explosion_time,
              !.base_texture = None, !.texture = None]

\* The ship starts exploding: the texture is remembered, then blanked.
ShipStruck(s) ==
    [s EXCEPT !.exploding = TRUE, !.explode_timer = ship_explosion_time,
              !.base_texture = s.texture, !.texture = None]

BulletShipCollisionSystem_step ==
    /\ Ready("BulletShipCollisionSystem")
    /\ Ran("BulletShipCollisionSystem")
    /\ IF "BulletShipCollisionSystem" \in pipeline
       THEN
            /\ LET H == ShipHitters(ship, bullets, shield_active)
               IN  IF H = {} THEN UNCHANGED << bullets, ship, hits >>
                   ELSE /\ bullets' = Kill(bullets, First(H))
                        /\ hits' = hits \cup {bullets[First(H)].id}
                        /\ ship' = ShipStruck(ship)
            /\ UNCHANGED << ctl, next_id, aliens, aliens_direction, missiles,
                            shelters, effects, ship_fire_timer, alien_fire_timer,
                            omegaVars, targetVars, shieldVars >>
       ELSE Skipped

\* An alien starts exploding.
Explode(as, j) ==
    [as EXCEPT ![j].exploding = TRUE, ![j].explode_timer = explosion_time]

\* BulletAlienCollisionSystem (order 45): ship bullet vs alien
RECURSIVE BulletAlienLoop(_, _)
BulletAlienLoop(st, i) ==
    IF i > Len(st.bs) THEN st
    ELSE LET b == st.bs[i]
             A == { j \in Idx(st.as) :
                      ~st.as[j].exploding /\ Intersects(Rect(b), Rect(st.as[j])) }
         IN  IF Live(b, "ship") /\ A # {}
             THEN BulletAlienLoop(
                      [ st EXCEPT !.bs = Kill(@, i), !.as = Explode(@, First(A)),
                                  !.hit = @ \cup {b.id} ],
                      i + 1)
             ELSE BulletAlienLoop(st, i + 1)

BulletAlienCollisionSystem_step ==
    /\ Ready("BulletAlienCollisionSystem")
    /\ Ran("BulletAlienCollisionSystem")
    /\ IF "BulletAlienCollisionSystem" \in pipeline
       THEN
            /\ LET r == BulletAlienLoop([bs |-> bullets, as |-> aliens, hit |-> hits], 1)
               IN  /\ bullets' = r.bs
                   /\ aliens' = r.as
                   /\ hits' = r.hit
            /\ UNCHANGED << ctl, next_id, ship, aliens_direction, missiles, shelters,
                            effects, ship_fire_timer, alien_fire_timer, omegaVars,
                            targetVars, shieldVars >>
       ELSE Skipped

\* MissileAlienCollisionSystem (order 45): missile vs its stored target.
\* alive_by_id is built once, before the loop.
\* The fate of a missile were the step to run on an empty roster too.
MissileFizzleAlways(m, as) ==
    IF ~m.alive \/ IsNone(m.target_id) THEN "skip"
    ELSE IF IsNone(AliveById(as, m.target_id)) THEN "fizzle"
    ELSE IF Intersects(Rect(m), Rect(as[Val(AliveById(as, m.target_id))]))
    THEN "hit" ELSE "skip"

\* What the step does with one missile: "skip", "fizzle" or "hit".
MissileFate(m, as) ==
    IF Len(as) = 0 THEN "skip"            \* if not w.aliens: return
    ELSE IF ~m.alive \/ IsNone(m.target_id) THEN "skip"
    ELSE IF IsNone(AliveById(as, m.target_id)) THEN "fizzle"
    ELSE IF Intersects(Rect(m), Rect(as[Val(AliveById(as, m.target_id))]))
    THEN "hit" ELSE "skip"

\* A warhead that goes off on whatever alien the missile touches.
MissileStruckAnyOverlap(ms, as) ==
    { j \in Idx(as) :
        /\ ~as[j].exploding
        /\ \E i \in Idx(ms) : /\ ms[i].alive /\ ~IsNone(ms[i].target_id)
                               /\ Intersects(Rect(ms[i]), Rect(as[j])) }

\* The aliens marked exploding: for each missile that hits, the alien that
\* alive_by_id returns for its target_id, and no other.
MissileStruck(ms, as) ==
    { Val(AliveById(as, ms[i].target_id)) :
        i \in { k \in Idx(ms) : MissileFate(ms[k], as) = "hit" } }

MissileAlienCollisionSystem_step ==
    /\ Ready("MissileAlienCollisionSystem")
    /\ Ran("MissileAlienCollisionSystem")
    /\ IF "MissileAlienCollisionSystem" \in pipeline
       THEN
            /\ LET gone == { i \in Idx(missiles) : MissileFate(missiles[i], aliens) # "skip" }
                   struck == MissileStruck(missiles, aliens)
               IN  /\ missiles' = [ i \in Idx(missiles) |->
                          IF i \in gone THEN [missiles[i] EXCEPT !.alive = FALSE]
                          ELSE missiles[i] ]
                   /\ aliens' = [ j \in Idx(aliens) |->
                          IF j \in struck
                          THEN [aliens[j] EXCEPT !.exploding = TRUE,
                                                 !.explode_timer = explosion_time]
                          ELSE aliens[j] ]
                   /\ hits' = hits \cup { missiles[i].id : i \in gone }
            /\ UNCHANGED << ctl, next_id, ship, aliens_direction, bullets, shelters,
                            effects, ship_fire_timer, alien_fire_timer, omegaVars,
                            targetVars, shieldVars >>
       ELSE Skipped

\* ------------------------------------------------------------------------
\* OmegaRayDamageSystem (order 44)
\* ------------------------------------------------------------------------
\* The strip from the top of the screen down to the ship's y.
BeamRect(x, s) == [x |-> x, y |-> 0, w |-> omega_width, h |-> Max(0, s.y)]

BeamVictimsWhileCharging(as, active, x, s) ==
    IF IsNone(x) \/ Max(0, s.y) <= 0 THEN {}
    ELSE { j \in Idx(as) : ~as[j].exploding
                           /\ Intersects(BeamRect(Val(x), s), Rect(as[j])) }

BeamVictimsFirstOnly(as, active, x, s) ==
    LET V == IF ~active \/ IsNone(x) \/ Max(0, s.y) <= 0 THEN {}
             ELSE { j \in Idx(as) : ~as[j].exploding
                        /\ Intersects(BeamRect(Val(x), s), Rect(as[j])) }
    IN  IF V = {} THEN {} ELSE {First(V)}

\* A beam that also strikes the aliens that are exploding already.
BeamVictimsIncludingWrecks(as, active, x, s) ==
    IF ~active \/ IsNone(x) \/ Max(0, s.y) <= 0 THEN {}
    ELSE { j \in Idx(as) : Intersects(BeamRect(Val(x), s), Rect(as[j])) }

\* The aliens the beam marks exploding in this step.
BeamVictims(as, active, x, s) ==
    IF ~active \/ IsNone(x) \/ Max(0, s.y) <= 0 THEN {}
    ELSE { j \in Idx(as) : ~as[j].exploding
                           /\ Intersects(BeamRect(Val(x), s), Rect(as[j])) }

OmegaRayDamageSystem_step ==
    /\ Ready("OmegaRayDamageSystem") /\ Ran("OmegaRayDamageSystem")
    /\ IF "OmegaRayDamageSystem" \in pipeline
       THEN
            /\ LET V == BeamVictims(aliens, omega_active, omega_x, ship)
               IN  aliens' = [ j \in Idx(aliens) |->
                       IF j \in V
                       THEN [aliens[j] EXCEPT !.exploding = TRUE,
                                              !.explode_timer = explosion_time]
                       ELSE aliens[j] ]
            /\ UNCHANGED << ctl, next_id, hits, ship, aliens_direction, bullets,
                            missiles, shelters, effects, ship_fire_timer,
                            alien_fire_timer, omegaVars, targetVars, shieldVars >>
       ELSE Skipped

\* ------------------------------------------------------------------------
\* Lifecycle: ShipExplosionSystem, ExplosionSystem (46), MissileCullSystem
\* (47), EffectsSystem (90)
\* ------------------------------------------------------------------------
ShipExplosionSystem_step ==
    /\ Ready("ShipExplosionSystem") /\ Ran("ShipExplosionSystem")
    /\ IF "ShipExplosionSystem" \in pipeline
       THEN
            /\ ship' = IF ~ship.exploding THEN ship
                       ELSE LET t1 == Max(0, ship.explode_timer - dt)
                            IN  IF t1 <= 0
                                THEN [ship EXCEPT !.explode_timer = t1,
                                                  !.exploding = FALSE,
                                                  !.texture = ship.base_texture]
                                ELSE [ship EXCEPT !.explode_timer = t1]
            /\ UNCHANGED << ctl, next_id, hits, aliens, aliens_direction, bullets,
                            missiles, shelters, effects, ship_fire_timer,
                            alien_fire_timer, omegaVars, targetVars, shieldVars >>
       ELSE Skipped

ExplosionTickClosingRanks(as, d) ==
    LET kept == SelectSeq([ i \in Idx(as) |->
                    IF as[i].exploding THEN [as[i] EXCEPT !.explode_timer = @ - d]
                    ELSE as[i] ],
                    LAMBDA a : ~a.exploding \/ a.explode_timer > 0)
    IN  [ i \in Idx(kept) |-> [kept[i] EXCEPT !.col = i - 1] ]

\* Exploding aliens count down; those whose timer lapsed are dropped.
\* A tick that drops an alien only once its timer has gone below 0.
ExplosionTickLingering(as, d) ==
    SelectSeq([ i \in Idx(as) |->
                  IF as[i].exploding THEN [as[i] EXCEPT !.explode_timer = @ - d]
                  ELSE as[i] ],
              LAMBDA a : ~a.exploding \/ a.explode_timer >= 0)

ExplosionTick(as, d) ==
    SelectSeq([ i \in Idx(as) |->
                  IF as[i].exploding THEN [as[i] EXCEPT !.explode_timer = @ - d]
                  ELSE as[i] ],
              LAMBDA a : ~a.exploding \/ a.explode_timer > 0)

ExplosionSystem_step ==
    /\ Ready("ExplosionSystem") /\ Ran("ExplosionSystem")
    /\ IF "ExplosionSystem" \in pipeline
       THEN
            /\ aliens' = ExplosionTick(aliens, dt)
            /\ UNCHANGED << ctl, next_id, hits, ship, aliens_direction, bullets,
                            missiles, shelters, effects, ship_fire_timer,
                            alien_fire_timer, omegaVars, targetVars, shieldVars >>
       ELSE Skipped

MissileCullSystem_step ==
    /\ Ready("MissileCullSystem") /\ Ran("MissileCullSystem")
    /\ IF "MissileCullSystem" \in pipeline
       THEN
            /\ missiles' = Cull(missiles)
            /\ UNCHANGED << ctl, next_id, hits, ship, aliens, aliens_direction,
                            bullets, shelters, effects, ship_fire_timer,
                            alien_fire_timer, omegaVars, targetVars, shieldVars >>
       ELSE Skipped

EffectsSystem_step ==
    /\ Ready("EffectsSystem") /\ Ran("EffectsSystem")
    /\ IF "EffectsSystem" \in pipeline
       THEN
            /\ effects' = SelectSeq([ i \in Idx(effects) |->
                                        [effects[i] EXCEPT !.ttl = @ - dt] ],
                                    LAMBDA e : e.ttl > 0)
            /\ UNCHANGED << ctl, next_id, hits, ship, aliens, aliens_direction,
                            bullets, missiles, shelters, ship_fire_timer,
                            alien_fire_timer, omegaVars, targetVars, shieldVars >>
       ELSE Skipped

\* ------------------------------------------------------------------------
\* SpaceInvadersRenderSystem (order 100): a read of the final world.
\* DrawMissileTarget looks up alive[missile_target_idx].
\* ------------------------------------------------------------------------
TargetLookup == /\ missile_targeting
                /\ Len(NotExploding(aliens)) > 0
                /\ ~IsNone(missile_target_idx)

SpaceInvadersRenderSystem_step ==
    /\ Ready("SpaceInvadersRenderSystem") /\ Ran("SpaceInvadersRenderSystem")
    /\ IF "SpaceInvadersRenderSystem" \in pipeline
       THEN
            /\ crashed' = (TargetLookup
                           /\ Val(missile_target_idx) >= Len(NotExploding(aliens)))
            /\ UNCHANGED << frame, dt, intent, keys, pipeline, orphans, next_id, hits, ship, aliens,
                            aliens_direction, bullets, missiles, shelters, effects,
                            ship_fire_timer, alien_fire_timer, omegaVars, targetVars,
                            shieldVars >>
       ELSE Skipped

\* ------------------------------------------------------------------------
\* The frame loop
\* ------------------------------------------------------------------------
Next ==
    \/ BeginFrame
    \/ ShipSystem_step
    \/ MissileTargetSystem_step
    \/ ShieldSystem_step
    \/ BulletSpawnSystem_step
    \/ MissileSpawnSystem_step
    \/ AlienSystem_step
    \/ AlienFireSystem_step
    \/ OmegaRaySystem_step
    \/ BulletMoveSystem_step
    \/ BulletCullSystem_step
    \/ MissileHomingSystem_step
    \/ BulletMissileCollisionSystem_step
    \/ BulletBulletCollisionSystem_step
    \/ BulletShelterCollisionSystem_step
    \/ BulletShieldCollisionSystem_step
    \/ OmegaRayDamageSystem_step
    \/ BulletAlienCollisionSystem_step
    \/ BulletShipCollisionSystem_step
    \/ MissileAlienCollisionSystem_step
    \/ ShipExplosionSystem_step
    \/ ExplosionSystem_step
    \/ MissileCullSystem_step
    \/ EffectsSystem_step
    \/ SpaceInvadersRenderSystem_step

\* ------------------------------------------------------------------------
\* Worlds the game can be in when a frame starts
\* ------------------------------------------------------------------------
\* The ship as on_enter builds it, at horizontal position x.
ShipAt(x) == [ x |-> x, y |-> vh - 50, w |-> ship_w, h |-> ship_h,
               exploding |-> FALSE, explode_timer |-> 0,
               texture |-> Some(TexPlayer), base_texture |-> Some(TexPlayer) ]

\* The alien of row r and column c as on_enter builds it, the formation
\* having moved by (ox, oy) since.
AlienAt(r, c, ox, oy) ==
    [ id |-> 100 + 12 * r + c, x |-> 80 + c * (alien_w + 18) + ox,
      y |-> 60 + r * (alien_h + 18) + oy, w |-> alien_w, h |-> alien_h,
      vx |-> 0, speed |-> alien_speed, row |-> r, col |-> c,
      exploding |-> FALSE, explode_timer |-> 0, fire_cd |-> 0 ]

\* The four shelters on_enter builds.
ShelterGap == (vw - 4 * shelter_w) \div 5

ShelterAt(k, dmg) ==
    [ x |-> ShelterGap + k * (shelter_w + ShelterGap), y |-> vh - 150,
      w |-> shelter_w, h |-> shelter_h, damage |-> dmg, alive |-> TRUE ]

InitTick ==
    /\ frame = 0 /\ dt = 0 /\ intent = IntentOf({}) /\ done = Systems
    /\ crashed = FALSE /\ hits = {} /\ orphans = {} /\ effects = << >>

\* The pipeline with every system of the scene registered.
InitFrame == InitTick /\ pipeline = Systems

OmegaIdle ==
    /\ omega_active = FALSE /\ omega_timer = 0 /\ omega_charge_timer = 0
    /\ omega_x = None /\ omega_cd_timer = 0

TargetIdle ==
    /\ missile_targeting = FALSE /\ missile_target_idx = None
    /\ missile_cd_timer = 0

ShieldIdle ==
    /\ shield_active = FALSE /\ shield_timer = 0 /\ shield_cd_timer = 0

NoAliens == aliens = << >> /\ aliens_direction = 1 /\ alien_fire_timer = 100

AllShelters(dmg) == [ k \in 1..4 |-> ShelterAt(k - 1, IF k = 1 THEN dmg ELSE 0) ]

\* Ship control and primary weapon, the aliens all destroyed.
InitShip ==
    /\ InitFrame /\ OmegaIdle /\ TargetIdle /\ ShieldIdle /\ NoAliens
    /\ keys = {"LEFT", "RIGHT", "SPACE"}
    /\ ship \in { ShipAt(x) : x \in {0, 20, vw - ship_w - 20, vw - ship_w} }
    /\ ship_fire_timer \in {0, 10, ship_fire_cooldown}
    /\ bullets = << >> /\ missiles = << >> /\ next_id = 1
    /\ shelters = AllShelters(0)

SpecShip == InitShip /\ [][Next]_vars

\* The formation next to a wall: the outer columns of the bottom row, one of
\* them possibly gone or exploding, moved by (ox, oy) since the start.
InitFormation ==
    /\ InitFrame /\ OmegaIdle /\ TargetIdle /\ ShieldIdle
    /\ keys = {}
    /\ ship = ShipAt(380) /\ ship_fire_timer = 0
    /\ bullets = << >> /\ missiles = << >> /\ next_id = 1
    /\ shelters = AllShelters(0)
    /\ alien_fire_timer = 100
    /\ aliens_direction \in {1, -1}
    /\ \E ox \in {-79, -78, -60, 0, 45, 64, 65}, oy \in {0, drop_step} :
       \E roster \in { << AlienAt(4, 0, ox, oy), AlienAt(4, 11, ox, oy) >>,
                       << AlienAt(3, 0, ox, oy),
                          [AlienAt(4, 11, ox, oy) EXCEPT !.exploding = TRUE,
                                                         !.explode_timer = explosion_time] >>,
                       << AlienAt(4, 0, ox, oy) >>,
                       << AlienAt(4, 11, ox, oy) >> } :
          /\ \A i \in Idx(roster) : 0 < roster[i].x /\ roster[i].x + alien_w < vw
          /\ aliens = roster

SpecFormation == InitFormation /\ [][Next]_vars

\* The beam in each of its phases, locked (when locked) at the ship's
\* center of that time; aliens of row 4 in, next to and away from the strip.
InitBeam ==
    /\ InitFrame /\ TargetIdle /\ ShieldIdle
    /\ keys = {"O"}
    /\ ship \in {ShipAt(380), ShipAt(500)} /\ ship_fire_timer = 0
    /\ bullets = << >> /\ missiles = << >> /\ next_id = 1
    /\ shelters = AllShelters(0)
    /\ alien_fire_timer = 100
    /\ aliens_direction = -1
    /\ aliens = << AlienAt(4, 5, 2, 0), AlienAt(4, 6, 2, 0), AlienAt(4, 9, 2, 0) >>
    /\ \/ OmegaIdle
       \/ /\ omega_active = FALSE /\ omega_timer = 0 /\ omega_cd_timer = 0
          /\ omega_x = Some(BeamX(ShipAt(380)))
          /\ omega_charge_timer \in {10, charge_time}
       \/ /\ omega_active = TRUE /\ omega_cd_timer = 0
          /\ omega_x = Some(BeamX(ShipAt(380)))
          /\ omega_charge_timer \in {0, -10}
          /\ omega_timer \in {10, fire_time}
       \/ /\ omega_active = FALSE /\ omega_x = None
          /\ omega_charge_timer = 0 /\ omega_timer \in {0, -10}
          /\ omega_cd_timer \in {10, 20, omega_cooldown}

SpecBeam == InitBeam /\ [][Next]_vars

\* Projectiles in flight: an alien bullet above the first shelter and the
\* ship, a ship bullet below an alien, a missile homing on that alien.
AlienShot(id, y) ==
    [ id |-> id, x |-> 140, y |-> y, w |-> proj_w, h |-> proj_h,
      vy |-> proj_speed_A, owner |-> "alien", alive |-> TRUE ]

ShipShot(id, y) ==
    [ id |-> id, x |-> 138, y |-> y, w |-> bullet_w, h |-> bullet_h,
      vy |-> -bullet_speed, owner |-> "ship", alive |-> TRUE ]

MissileAt(id, x, y, tid) ==
    [ id |-> id, x |-> x, y |-> y, w |-> missile_w, h |-> missile_h,
      vx |-> 0, vy |-> -missile_kick, alive |-> TRUE, target_id |-> Some(tid),
      speed |-> missile_speed ]

InitCollide ==
    /\ InitFrame /\ OmegaIdle /\ TargetIdle
    /\ keys = {"C"}
    /\ ship = ShipAt(120) /\ ship_fire_timer = 0
    /\ \/ ShieldIdle
       \/ /\ shield_active = TRUE /\ shield_timer = shield_duration
          /\ shield_cd_timer = shield_cooldown
    /\ \E dmg \in {0, max_damage - 1, max_damage} : shelters = AllShelters(dmg)
    /\ aliens_direction = 1 /\ alien_fire_timer = 100
    /\ aliens = << AlienAt(4, 1, 0, 0) >>
    /\ \E y \in {420, 500} :
          bullets \in { << AlienShot(1, y), ShipShot(2, 300) >>,
                        << AlienShot(1, y), AlienShot(2, y - 20) >> }
    /\ missiles \in { << >>, << MissileAt(3, 300, 400, AlienAt(4, 1, 0, 0).id) >> }
    /\ next_id = 4

SpecCollide == InitCollide /\ [][Next]_vars

\* A missile in flight towards its target, with a ship bullet about to
\* reach that target; the target alone or with another alien.
InitMissile ==
    /\ InitFrame /\ OmegaIdle /\ ShieldIdle
    /\ keys = {"T", "M"}
    /\ ship = ShipAt(120) /\ ship_fire_timer = ship_fire_cooldown
    /\ shelters = AllShelters(0)
    /\ aliens_direction = 1 /\ alien_fire_timer = 100
    /\ aliens \in { << AlienAt(4, 1, 0, 0) >>,
                    << AlienAt(4, 1, 0, 0), AlienAt(4, 3, 0, 0) >> }
    /\ bullets \in { << >>, << ShipShot(1, 300) >>, << ShipShot(1, 352) >> }
    /\ \/ /\ missiles = << MissileAt(2, 133, 420, AlienAt(4, 1, 0, 0).id) >>
          /\ missile_targeting = FALSE /\ missile_target_idx = Some(0)
          /\ missile_cd_timer \in {0, missile_cooldown}
       \/ /\ missiles = << >>
          /\ missile_targeting \in BOOLEAN /\ missile_target_idx = Some(0)
          /\ missile_cd_timer = 0
    /\ next_id = 3

SpecMissile == InitMissile /\ [][Next]_vars

\* The aliens about to fire: the fire timer at or near 0, none to two alien
\* bullets in flight (one of them possibly dead, awaiting the next cull),
\* two aliens in one column and one in another.
InitAlienFire ==
    /\ InitFrame /\ OmegaIdle /\ TargetIdle /\ ShieldIdle
    /\ keys = {"SPACE"}
    /\ ship = ShipAt(120) /\ ship_fire_timer = 0
    /\ shelters = AllShelters(0)
    /\ aliens_direction = 1
    /\ alien_fire_timer \in {0, 10, alien_fire_retry, 20}
    /\ aliens \in { << AlienAt(3, 1, 0, 0), AlienAt(4, 1, 0, 0), AlienAt(4, 3, 0, 0) >>,
                    << AlienAt(3, 1, 0, 0), [AlienAt(4, 1, 0, 0) EXCEPT !.fire_cd = 10],
                       [AlienAt(4, 3, 0, 0) EXCEPT !.fire_cd = shooter_cd_min] >>,
                    << AlienAt(0, 1, 0, 0),
                       [AlienAt(4, 3, 0, 0) EXCEPT !.fire_cd = shooter_cd_min] >> }
    /\ bullets \in { << >>,
                     << AlienShot(1, 420) >>,
                     << AlienShot(1, 420), AlienShot(2, 300) >>,
                     << AlienShot(1, 300), [AlienShot(2, 460) EXCEPT !.alive = FALSE] >> }
    /\ missiles = << >>
    /\ next_id = 3

SpecAlienFire == InitAlienFire /\ [][Next]_vars

\* Projectiles about to meet two things at once: an alien bullet and a ship
\* bullet that cross inside the first shelter, and a ship bullet that
\* reaches an alien together with the missile homing on that alien.
InitOverlap ==
    /\ InitFrame /\ OmegaIdle /\ TargetIdle /\ ShieldIdle
    /\ keys = {}
    /\ ship = ShipAt(120) /\ ship_fire_timer = 0
    /\ \E dmg \in {0, max_damage} : shelters = AllShelters(dmg)
    /\ aliens_direction = 1 /\ alien_fire_timer = 100
    /\ aliens = << AlienAt(4, 1, 0, 0) >>
    /\ \E crossing \in { << >>, << AlienShot(1, 425), ShipShot(2, 520) >>,
                          << AlienShot(1, 425), ShipShot(2, 520),
                             AlienShot(5, 421) >> },
          chasing \in { << >>, << [ShipShot(3, 300) EXCEPT !.x = 150] >> } :
          /\ bullets = crossing \o chasing
          /\ missiles = IF chasing = << >> THEN << >>
                        ELSE << MissileAt(4, 130, 300, AlienAt(4, 1, 0, 0).id) >>
    /\ next_id = 6

SpecOverlap == InitOverlap /\ [][Next]_vars

\* The systems on_enter registers (the input system builds the intent at
\* the start of the frame; every other entry of the list is commented out).
Registered == { "ShipSystem", "SpaceInvadersRenderSystem" }

\* The formation on_enter builds: 5 rows of 12.
Formation == [ k \in 1..60 |-> AlienAt((k - 1) \div 12, (k - 1) % 12, 0, 0) ]

\* The scene as on_enter leaves it.
InitScene ==
    /\ InitTick /\ pipeline = Registered
    /\ OmegaIdle /\ TargetIdle /\ ShieldIdle
    /\ keys = {"LEFT", "RIGHT", "SPACE", "O", "C"}
    /\ ship = ShipAt(vw \div 2 - ship_w \div 2) /\ ship_fire_timer = 0
    /\ aliens = Formation /\ aliens_direction = 1 /\ alien_fire_timer = 100
    /\ shelters = AllShelters(0)
    /\ bullets = << >> /\ missiles = << >> /\ next_id = 1

SpecScene == InitScene /\ [][Next]_vars

\* ------------------------------------------------------------------------
\* Properties
\* ------------------------------------------------------------------------
\* The step being taken is system s's.
Stepped(s) == s \notin done /\ s \in done'

\* The bullets / missiles a collision system marked dead in this frame that
\* are still in their list.
LingeringBullets == { i \in Idx(bullets) : bullets[i].id \in hits }
LingeringMissiles == { i \in Idx(missiles) : missiles[i].id \in hits }

\* C1: a bullet or missile marked dead by a collision system in a frame is
\* absent from world.bullets / world.missiles at the end of that frame.
C1_MarkedDeadCulledSameFrame ==
    FrameOver => (LingeringBullets = {} /\ LingeringMissiles = {})

\* C2: a live missile whose target had left the alive set when a frame began
\* is gone from world.missiles when that frame ends.
C2_OrphanMissileCulled ==
    (FrameOver /\ frame > 0) =>
        \A i \in Idx(missiles) : missiles[i].id \notin orphans

\* C3: an AlienSystem step on a non-empty roster either (some predicted x
\* reaches a wall) negates the direction, drops every alien by drop_step and
\* moves none horizontally, or keeps direction and every y and moves every
\* alien by direction*speed*dt.
C3_FormationWallContact ==
    [][ (Stepped("AlienSystem") /\ Len(aliens) > 0) =>
          LET nx(i) == aliens[i].x
                         + (aliens_direction * aliens[i].speed * dt) \div 100
              wall == \E i \in Idx(aliens) :
                          nx(i) <= 0 \/ nx(i) + aliens[i].w >= vw
          IN  /\ Len(aliens') = Len(aliens)
              /\ IF wall
                 THEN /\ aliens_direction' = -aliens_direction
                      /\ \A i \in Idx(aliens) :
                            /\ aliens'[i].y = aliens[i].y + drop_step
                            /\ aliens'[i].x = aliens[i].x
                 ELSE /\ aliens_direction' = aliens_direction
                      /\ \A i \in Idx(aliens) :
                            /\ aliens'[i].y = aliens[i].y
                            /\ aliens'[i].x = nx(i) ]_vars

\* C3 witness: the formation, one pixel from the right wall and heading
\* right, has just dropped and turned in a tick with dt > 0.
C3_Witness ==
    /\ "AlienSystem" \in done /\ "ExplosionSystem" \notin done
    /\ frame = 1 /\ dt > 0 /\ aliens_direction = -1
    /\ \E i \in Idx(aliens) :
          /\ aliens[i].x + aliens[i].w = vw - 1
          /\ aliens[i].y = AlienAt(4, 11, 0, 2 * drop_step).y

\* C4: every ShipSystem step leaves the ship's x in [0, vw - ship_w], and it
\* is the integrated position (x + velocity*dt) that is clamped.
C4_ShipClampAfterMove ==
    [][ Stepped("ShipSystem") =>
          LET moved == ship.x + ((intent.move_ship_right - intent.move_ship_left)
                                    * ship_speed * dt) \div 100
          IN  /\ 0 <= ship'.x /\ ship'.x <= vw - ship_w
              /\ ship'.x = (IF moved < 0 THEN 0
                            ELSE IF moved > vw - ship_w THEN vw - ship_w
                            ELSE moved) ]_vars

\* C4 witness: the ship pushed right against the wall in the first frame
\* (from 20 or 0 pixels short of it) sits exactly at vw - ship_w.
C4_Witness ==
    /\ frame = 1 /\ "ShipSystem" \in done /\ dt > 0
    /\ intent.move_ship_right = 1 /\ intent.move_ship_left = 0
    /\ ship.x = vw - ship_w

\* C5: with the shield active, the shield pass marks dead every live alien
\* bullet overlapping the shield rectangle, and no step of the frame after
\* ShieldSystem sets the ship exploding.
C5_ShieldProtects ==
    [][ /\ (Stepped("BulletShieldCollisionSystem") /\ shield_active) =>
              \A i \in Idx(bullets) :
                  ( /\ bullets[i].alive /\ bullets[i].owner = "alien"
                    /\ Intersects(ShieldRect200(ship), Scaled(Rect(bullets[i]), 200)) )
                  => ( /\ bullets'[i].id = bullets[i].id
                       /\ ~bullets'[i].alive )
        /\ ("ShieldSystem" \in done /\ shield_active /\ ~ship.exploding)
              => ~ship'.exploding ]_vars

\* C5 witness: the shield is up, both ship-hit and shield passes have run,
\* an alien bullet overlapping the ship's own rectangle was marked dead and
\* the ship is not exploding.
C5_Witness ==
    /\ frame > 0 /\ shield_active /\ ~ship.exploding
    /\ "BulletShieldCollisionSystem" \in done
    /\ "BulletShipCollisionSystem" \in done
    /\ \E i \in Idx(bullets) :
          /\ bullets[i].owner = "alien" /\ ~bullets[i].alive
          /\ bullets[i].id \in hits
          /\ Intersects(ShipRect(ship), Rect(bullets[i]))

\* C6: an OmegaRaySystem step with a fire intent while the cooldown timer is
\* still > 0 (after this tick's countdown) changes none of omega_x,
\* omega_charge_timer, omega_active, omega_timer.
C6_FireDuringCooldownIgnored ==
    [][ ( /\ Stepped("OmegaRaySystem")
          /\ intent.fire_omega_ray
          /\ omega_cd_timer - dt > 0 )
        => UNCHANGED << omega_x, omega_charge_timer, omega_active, omega_timer >>
      ]_vars

\* C6 witness: fire was requested in a tick whose beam step left the
\* cooldown running, and the beam is neither locked nor charging.
C6_Witness ==
    /\ frame > 0 /\ "OmegaRaySystem" \in done /\ intent.fire_omega_ray
    /\ omega_cd_timer > 0 /\ omega_cd_timer < omega_cooldown
    /\ IsNone(omega_x) /\ omega_charge_timer = 0 /\ ~omega_active

\* The beam strip: at omega_x, omega_width wide, from the top down to ship.y.
InStrip(a) ==
    /\ ~IsNone(omega_x)
    /\ Intersects([x |-> Val(omega_x), y |-> 0, w |-> omega_width, h |-> ship.y],
                  Rect(a))

\* C7: in every tick the beam is active, the damage step marks exploding,
\* with explode_timer = explosion_time, every non-exploding alien whose
\* rectangle intersects the strip.
C7_ActiveBeamDestroys ==
    [][ (Stepped("OmegaRayDamageSystem") /\ omega_active) =>
          /\ Len(aliens') = Len(aliens)
          /\ \A j \in Idx(aliens) :
                (~aliens[j].exploding /\ InStrip(aliens[j])) =>
                    /\ aliens'[j].id = aliens[j].id
                    /\ aliens'[j].exploding
                    /\ aliens'[j].explode_timer = explosion_time ]_vars

\* C7 witness: the beam was already active in frame 1 (no time passed),
\* and the alien of column 6, outside the strip then, moved into it in
\* frame 2 and was marked exploding by that frame's damage step.
C7_Witness ==
    /\ frame = 2 /\ dt > 0 /\ omega_active /\ omega_timer = fire_time - dt
    /\ "OmegaRayDamageSystem" \in done /\ "ExplosionSystem" \notin done
    /\ \E j \in Idx(aliens) :
          /\ aliens[j].col = 6 /\ aliens[j].exploding
          /\ aliens[j].explode_timer = explosion_time

\* C8: a damage step taken while the beam is not active (idle, charging or
\* cooling down) marks no alien exploding.
C8_NoDamageUnlessActive ==
    [][ (Stepped("OmegaRayDamageSystem") /\ ~omega_active) => aliens' = aliens
      ]_vars

\* C8 witness: the beam is locked and still charging, the damage step has
\* run, and an alien standing in the strip is not exploding.
C8_Witness ==
    /\ frame > 0 /\ "OmegaRayDamageSystem" \in done
    /\ "ExplosionSystem" \notin done /\ ~omega_active
    /\ omega_charge_timer > 0
    /\ \E j \in Idx(aliens) : ~aliens[j].exploding /\ InStrip(aliens[j])

\* C9: a BulletSpawnSystem step counts the timer down by dt (not below 0);
\* with fire intent and the timer then at 0 it appends exactly one
\* ship-owned bullet at the ship's top-center and sets the timer to
\* ship_fire_cooldown; otherwise it appends nothing.
C9_PrimaryWeapon ==
    [][ Stepped("BulletSpawnSystem") =>
          LET t1 == IF ship_fire_timer - dt > 0 THEN ship_fire_timer - dt ELSE 0
          IN  IF intent.fire_bullet /\ t1 = 0
              THEN /\ Len(bullets') = Len(bullets) + 1
                   /\ SubSeq(bullets', 1, Len(bullets)) = bullets
                   /\ bullets'[Len(bullets')].owner = "ship"
                   /\ bullets'[Len(bullets')].alive
                   /\ 2 * bullets'[Len(bullets')].x + bullet_w = 2 * ship.x + ship_w
                   /\ bullets'[Len(bullets')].y + bullet_h = ship.y
                   /\ ship_fire_timer' = ship_fire_cooldown
              ELSE /\ bullets' = bullets
                   /\ ship_fire_timer' = t1 ]_vars

\* C9 witness: fire was requested, the spawn step has run, the timer is at
\* the full cooldown and the newest bullet sits on the ship's top-center.
C9_Witness ==
    /\ frame > 0 /\ "BulletSpawnSystem" \in done /\ "BulletMoveSystem" \notin done
    /\ intent.fire_bullet /\ ship_fire_timer = ship_fire_cooldown
    /\ Len(bullets) > 0
    /\ bullets[Len(bullets)].owner = "ship"
    /\ bullets[Len(bullets)].y + bullet_h = ship.y

\* The live alien bullets overlapping shelter k.
ShelterHitters(k) ==
    { i \in Idx(bullets) :
        /\ bullets[i].alive /\ bullets[i].owner = "alien"
        /\ Intersects(Rect(bullets[i]), Rect(shelters[k])) }

\* C10: a shelter pass marks dead every live alien bullet on a live shelter
\* and raises that shelter's damage by one per hit, up to max_damage; no
\* step ever lowers a shelter's damage, raises it above max_damage or (with
\* destroy_on_max disabled) makes the shelter not alive.
C10_ShelterDamage ==
    [][ /\ Stepped("BulletShelterCollisionSystem") =>
              \A k \in Idx(shelters) :
                  /\ shelters'[k].damage =
                        Min(max_damage, shelters[k].damage
                                          + Cardinality(ShelterHitters(k)))
                  /\ \A i \in ShelterHitters(k) : ~bullets'[i].alive
        /\ Len(shelters') = Len(shelters)
        /\ \A k \in Idx(shelters) :
              /\ shelters'[k].damage >= shelters[k].damage
              /\ shelters'[k].damage <= max_damage
              /\ shelters'[k].alive ]_vars

\* C10 witness: one alien bullet has hit the first shelter, whose damage
\* is at max_damage = 9, and the shelter is alive.
C10_Witness ==
    /\ frame > 0 /\ "BulletShelterCollisionSystem" \in done
    /\ "BulletShieldCollisionSystem" \notin done
    /\ Cardinality(hits) = 1
    /\ shelters[1].damage = max_damage /\ shelters[1].alive
    /\ \E i \in Idx(bullets) :
          /\ bullets[i].id \in hits /\ bullets[i].owner = "alien"
          /\ Intersects(Rect(bullets[i]), Rect(shelters[1]))

\* C11: at every point of every frame at most max_alien_bullets alien-owned
\* bullets are alive in world.bullets.
C11_AlienBulletCap == ActiveAlienBullets(bullets) <= max_alien_bullets

\* C11 witness: the aliens have just fired a new bullet (an id the frame
\* did not start with) and the live alien bullets are at the cap.
C11_Witness ==
    /\ frame > 0 /\ "AlienFireSystem" \in done /\ "BulletMoveSystem" \notin done
    /\ ActiveAlienBullets(bullets) = max_alien_bullets
    /\ \E i \in Idx(bullets) :
          /\ bullets[i].id >= 3 /\ bullets[i].owner = "alien" /\ bullets[i].alive

\* The passes over the bullets.
BulletPasses ==
    { "BulletMissileCollisionSystem", "BulletBulletCollisionSystem",
      "BulletShelterCollisionSystem", "BulletShieldCollisionSystem",
      "BulletShipCollisionSystem", "BulletAlienCollisionSystem" }

\* The bullets of the given owner that the step being taken marks dead.
NewlyDead(owner) ==
    { i \in Idx(bullets) :
        bullets[i].owner = owner /\ bullets[i].alive /\ ~bullets'[i].alive }

RECURSIVE DamageDone(_)
DamageDone(k) ==
    IF k = 0 THEN 0
    ELSE (shelters'[k].damage - shelters[k].damage) + DamageDone(k - 1)

\* C12: a pass over the bullets revives none and adds or drops none, and
\* every hit it deals is paid by one bullet that was alive and that this
\* pass marks dead: a missile destroyed, a shelter damage point, an alien
\* set exploding or the ship set exploding costs one bullet of the firing
\* side each, and bullets destroy each other in pairs.  A bullet already
\* dead therefore takes part in no further hit of the frame.
C12_NoDoubleConsumption ==
    [][ (\E s \in BulletPasses : Stepped(s)) =>
          /\ Len(bullets') = Len(bullets)
          /\ \A i \in Idx(bullets) :
                /\ bullets'[i].id = bullets[i].id
                /\ ~bullets[i].alive => ~bullets'[i].alive
          /\ Len(missiles') = Len(missiles) /\ Len(aliens') = Len(aliens)
          /\ Len(shelters') = Len(shelters)
          /\ Cardinality({ j \in Idx(missiles) :
                             missiles[j].alive /\ ~missiles'[j].alive })
               + Cardinality({ j \in Idx(aliens) :
                                ~aliens[j].exploding /\ aliens'[j].exploding })
               + (IF Stepped("BulletBulletCollisionSystem")
                  THEN Cardinality(NewlyDead("alien")) ELSE 0)
             <= Cardinality(NewlyDead("ship"))
          /\ DamageDone(Len(shelters))
               + (IF ~ship.exploding /\ ship'.exploding THEN 1 ELSE 0)
               + (IF Stepped("BulletBulletCollisionSystem")
                  THEN Cardinality(NewlyDead("ship")) ELSE 0)
             <= Cardinality(NewlyDead("alien")) ]_vars

\* C12 witness: every pass over the bullets has run; the alien bullet and
\* the ship bullet that met inside the first shelter destroyed each other
\* and the shelter took no damage from them, and the ship bullet that met
\* the missile on the alien destroyed the missile and left the alien whole.
C12_Witness ==
    /\ frame = 1 /\ BulletPasses \subseteq done
    /\ "MissileAlienCollisionSystem" \in done
    /\ "ShipExplosionSystem" \notin done
    /\ shelters[1].damage = 0
    /\ \E i, j \in Idx(bullets) :
          /\ bullets[i].owner = "alien" /\ bullets[j].owner = "ship"
          /\ ~bullets[i].alive /\ ~bullets[j].alive
          /\ Intersects(Rect(bullets[i]), Rect(bullets[j]))
          /\ Intersects(Rect(bullets[i]), Rect(shelters[1]))
    /\ \E i \in Idx(bullets), m \in Idx(missiles) :
          /\ bullets[i].owner = "ship" /\ ~bullets[i].alive
          /\ ~missiles[m].alive
          /\ Intersects(Rect(bullets[i]), Rect(missiles[m]))
          /\ Intersects(Rect(bullets[i]), Rect(aliens[1]))
          /\ Intersects(Rect(missiles[m]), Rect(aliens[1]))
    /\ ~aliens[1].exploding

\* The stages of the frame.
MovementSystems ==
    { "ShipSystem", "MissileTargetSystem", "ShieldSystem", "BulletSpawnSystem",
      "MissileSpawnSystem", "AlienSystem", "AlienFireSystem", "OmegaRaySystem",
      "BulletMoveSystem", "MissileHomingSystem" }

CollisionSystems ==
    BulletPasses \cup { "OmegaRayDamageSystem", "MissileAlienCollisionSystem" }

LifecycleSystems ==
    { "BulletCullSystem", "MissileCullSystem", "ExplosionSystem",
      "ShipExplosionSystem", "EffectsSystem" }

\* C13: at every point of a frame, a collision system has stepped only if
\* every movement/spawn system has, a lifecycle/culling system only if
\* every collision system has, and the render system only if all have.
C13_PipelineOrdering ==
    /\ \A c \in CollisionSystems \cap done : MovementSystems \subseteq done
    /\ \A l \in LifecycleSystems \cap done : CollisionSystems \subseteq done
    /\ "SpaceInvadersRenderSystem" \in done => done = Systems

\* C14: the pass of ship bullets against alien bullets steps after the
\* missile, shelter, shield and ship passes and before the missile-target
\* and alien passes; so a live alien bullet that overlaps a live shelter
\* when that pass steps is not destroyed by it, and neither is a ship
\* bullet it overlaps: the shelter pass consumes the alien bullet.
C14_CollisionPassOrder ==
    [][ Stepped("BulletBulletCollisionSystem") =>
          /\ { "BulletMissileCollisionSystem", "BulletShelterCollisionSystem",
                "BulletShieldCollisionSystem", "BulletShipCollisionSystem" }
                  \subseteq done
          /\ "MissileAlienCollisionSystem" \notin done
          /\ "BulletAlienCollisionSystem" \notin done
          /\ \A i \in Idx(bullets) :
                ( /\ Live(bullets[i], "alien")
                  /\ \E k \in Idx(shelters) :
                        /\ shelters[k].alive
                        /\ Intersects(Rect(bullets[i]), Rect(shelters[k])) )
                => /\ bullets'[i].alive
                   /\ \A j \in Idx(bullets) :
                         ( /\ Live(bullets[j], "ship")
                           /\ Intersects(Rect(bullets[i]), Rect(bullets[j])) )
                         => bullets'[j].alive ]_vars

\* C15: by the end of every frame each simulation stage (shield, missile
\* targeting/spawn/homing, bullet spawn/move/cull, formation movement,
\* alien fire, beam, the collision passes, explosions, effects) is in the
\* scene's pipeline and has stepped.
C15_EveryStageStepsOnce ==
    (FrameOver /\ frame > 0) =>
        ((MovementSystems \cup CollisionSystems \cup LifecycleSystems)
            \ {"ShipSystem"}) \subseteq (done \cap pipeline)

\* C16: no step changes the row or the column of an alien: every alien
\* of the roster after a step was in the roster before it, with the same
\* row and column.
C16_RowColImmutable ==
    [][ \A i \in Idx(aliens') :
          \E j \in Idx(aliens) :
              /\ aliens[j].id = aliens'[i].id
              /\ aliens[j].row = aliens'[i].row
              /\ aliens[j].col = aliens'[i].col ]_vars

\* C16 witness: at the end of a frame in which the formation moved and the
\* first alien of the roster was shot and dropped, the alien spawned in
\* row 4, column 3 is first in the roster, still with row 4 and column 3.
C16_Witness ==
    /\ frame > 0 /\ FrameOver /\ dt > 0
    /\ Len(aliens) = 1
    /\ aliens[1].id = AlienAt(4, 3, 0, 0).id
    /\ aliens[1].x # AlienAt(4, 3, 0, 0).x
    /\ aliens[1].row = 4 /\ aliens[1].col = 3

\* The phase of the beam weapon.
PhaseOf(active, charge, cd) ==
    IF active THEN "active"
    ELSE IF charge > 0 THEN "charging"
    ELSE IF cd > 0 THEN "cooldown"
    ELSE "idle"

Phase == PhaseOf(omega_active, omega_charge_timer, omega_cd_timer)

\* The phase changes of the cycle idle -> charging -> active -> cooldown ->
\* idle, each with its cause, in the step being taken.
CycleStep(p, q) ==
    \/ /\ p = "idle" /\ q = "charging"
       /\ Stepped("OmegaRaySystem") /\ intent.fire_omega_ray
       /\ omega_cd_timer <= 0
    \/ /\ p = "charging" /\ q = "active"
       /\ Stepped("OmegaRaySystem") /\ omega_charge_timer - dt <= 0
    \/ /\ p = "active" /\ q = "cooldown"
       /\ Stepped("OmegaRaySystem") /\ omega_timer - dt <= 0
       /\ omega_cd_timer' = omega_cooldown
    \/ /\ p = "cooldown" /\ q = "idle"
       /\ Stepped("OmegaRaySystem") /\ omega_cd_timer' = 0

\* C17 as stated: the phase of the beam changes only along idle ->
\* charging -> active -> cooldown -> idle, charging starting only from idle.
C17_BeamPhaseCycle ==
    [][ LET p == Phase
            q == PhaseOf(omega_active', omega_charge_timer', omega_cd_timer')
        IN  p # q => CycleStep(p, q) ]_vars

\* C17 amended: the phase changes only along the cycle, except that a fire
\* intent in the very tick in which the cooldown timer runs out starts the
\* charge at once, cooldown -> charging, the timer being counted down
\* before it is tested.
C17_BeamPhaseCycleAmended ==
    [][ LET p == Phase
            q == PhaseOf(omega_active', omega_charge_timer', omega_cd_timer')
        IN  p # q =>
              \/ CycleStep(p, q)
              \/ /\ p = "cooldown" /\ q = "charging"
                 /\ Stepped("OmegaRaySystem") /\ intent.fire_omega_ray
                 /\ omega_cd_timer - dt <= 0 /\ omega_cd_timer' = 0 ]_vars

\* C17 witness: a charge that started in the first frame straight from a
\* cooldown (the active timer still shows the overshoot of the beam that
\* ended before the cooldown; a new charge does not touch it).
C17_Witness ==
    /\ frame = 1 /\ "OmegaRaySystem" \in done /\ dt > 0
    /\ Phase = "charging" /\ omega_charge_timer = charge_time
    /\ omega_timer = -10 /\ omega_cd_timer = 0

\* ------------------------------------------------------------------------
\* The shield in each of its situations: idle, raised (its timer and its
\* cooldown started together, so the cooldown is shield_cooldown -
\* shield_duration ahead), or lowered again with the cooldown still running.
\* One alien bullet is on its way to the ship.
\* ------------------------------------------------------------------------
InitShield ==
    /\ InitFrame /\ OmegaIdle /\ TargetIdle
    /\ keys = {"C"}
    /\ ship = ShipAt(120) /\ ship_fire_timer = 0
    /\ \/ ShieldIdle
       \/ /\ shield_active = TRUE /\ shield_timer \in {10, 20, 90}
          /\ shield_cd_timer = shield_timer + (shield_cooldown - shield_duration)
       \/ /\ shield_active = FALSE /\ shield_timer = 0
          /\ shield_cd_timer \in {10, 20, shield_cooldown - shield_duration}
    /\ shelters = AllShelters(0)
    /\ aliens_direction = 1 /\ alien_fire_timer = 100
    /\ aliens = << AlienAt(4, 1, 0, 0) >>
    /\ bullets \in { << >>, << AlienShot(1, 420) >>, << AlienShot(1, 500) >> }
    /\ missiles = << >>
    /\ next_id = 2

SpecShield == InitShield /\ [][Next]_vars

\* The cooldown as ShieldSystem tests it, after this tick's countdown.
ShieldCdAfter == IF shield_cd_timer > 0 THEN Max(0, shield_cd_timer - dt)
                 ELSE shield_cd_timer

\* The shield timer after this tick's countdown.
ShieldTimerAfter == IF shield_active THEN Max(0, shield_timer - dt)
                    ELSE shield_timer

\* The shield is raised by this step: the flag comes up, or the timer is
\* wound up again.
ShieldRaised == shield_active' /\ (~shield_active \/ shield_timer' > shield_timer)

\* C18: the shield is raised only by a ShieldSystem step of a tick with
\* intent.shield_toggle, with the shield not active and the cooldown timer
\* (as the step tests it, after this tick's countdown) <= 0; that step sets
\* shield_timer = shield_duration and shield_cd_timer = shield_cooldown
\* together.  A toggle while the shield stays active or the cooldown is
\* still running has no effect: the flag and both timers come out exactly
\* as the tick's countdown alone leaves them.
C18_ShieldToggleGating ==
    [][ /\ ShieldRaised =>
              /\ Stepped("ShieldSystem") /\ intent.shield_toggle
              /\ ~shield_active /\ ShieldCdAfter <= 0
              /\ shield_timer' = shield_duration
              /\ shield_cd_timer' = shield_cooldown
        /\ ( /\ Stepped("ShieldSystem") /\ intent.shield_toggle
             /\ (shield_active \/ ShieldCdAfter > 0) ) =>
              /\ shield_active' = (shield_active /\ ShieldTimerAfter > 0)
              /\ shield_timer' = ShieldTimerAfter
              /\ shield_cd_timer' = ShieldCdAfter
      ]_vars

\* The shield has just been raised by a toggle: both timers are at their
\* full values (no initial state has them there).
C18_Witness ==
    /\ frame > 0 /\ "ShieldSystem" \in done /\ "BulletShieldSystem" \notin done
    /\ intent.shield_toggle
    /\ shield_active /\ shield_timer = shield_duration
    /\ shield_cd_timer = shield_cooldown

\* ------------------------------------------------------------------------
\* C19: a missile is appended only by a MissileSpawnSystem step of a tick
\* with intent.missile_launch, taken with missile_targeting true and
\* missile_cd_timer <= 0.  A launch appends exactly one missile, which
\* stores the identity of the non-exploding alien under the cursor, sets
\* missile_targeting to false and missile_cd_timer to missile_cooldown.  A
\* MissileSpawnSystem step that does not launch leaves missiles,
\* missile_targeting and missile_cd_timer as they were.
\* ------------------------------------------------------------------------
MissileAppended == Len(missiles') > Len(missiles)

InitFlyby ==
    /\ InitFrame /\ OmegaIdle /\ ShieldIdle
    /\ keys = {"T", "M"}
    /\ ship = ShipAt(120) /\ ship_fire_timer = ship_fire_cooldown
    /\ shelters = AllShelters(0)
    /\ aliens_direction = 1 /\ alien_fire_timer = 100
    /\ aliens = << AlienAt(2, 1, 0, 0), AlienAt(4, 1, 0, 0) >>
    /\ bullets = << >>
    /\ missiles \in
          { << MissileAt(1, 148, 250, AlienAt(2, 1, 0, 0).id) >>,
            << MissileAt(1, 148, 300, AlienAt(2, 1, 0, 0).id) >>,
            << MissileAt(1, 148, 250, AlienAt(4, 1, 0, 0).id) >>,
            << MissileAt(1, 148, 250, AlienAt(2, 1, 0, 0).id),
               MissileAt(2, 150, 300, AlienAt(4, 1, 0, 0).id) >> }
    /\ missile_targeting \in BOOLEAN /\ missile_target_idx = Some(0)
    /\ missile_cd_timer = 0
    /\ next_id = 3

SpecFlyby == InitFlyby /\ [][Next]_vars

\* Missile m lies across alien a, which is not the one it is aimed at.
Grazes(m, a) ==
    /\ m.alive /\ ~a.exploding
    /\ m.target_id # Some(a.id)
    /\ Intersects(Rect(m), Rect(a))

\* C20: a MissileAlienCollisionSystem step marks an alien exploding only if
\* some live missile stores that alien's identity and overlaps it; an alien
\* that is merely in the way of missiles aimed elsewhere is never marked.
C20_MissileOnlyHitsStoredTarget ==
    [][ Stepped("MissileAlienCollisionSystem") =>
          /\ Len(aliens') = Len(aliens)
          /\ \A j \in Idx(aliens) :
                (~aliens[j].exploding /\ aliens'[j].exploding) =>
                    \E i \in Idx(missiles) :
                        /\ missiles[i].alive
                        /\ missiles[i].target_id = Some(aliens[j].id)
                        /\ Intersects(Rect(missiles[i]), Rect(aliens[j]))
      ]_vars

\* The collision pass has run with a live missile lying across an alien it
\* is not aimed at, and that alien is untouched.
C20_Witness ==
    /\ frame > 0 /\ dt > 0
    /\ "MissileAlienCollisionSystem" \in done /\ "BulletAlienCollisionSystem" \in done
    /\ "ExplosionSystem" \notin done
    /\ \E i \in Idx(missiles), j \in Idx(aliens) : Grazes(missiles[i], aliens[j])

\* ------------------------------------------------------------------------
\* An alien's fire_cd as AlienFireSystem reads it when it selects the
\* shooter, after this tick's countdown.
FireCdAfter(a) == IF a.fire_cd > 0 THEN Max(0, a.fire_cd - dt) ELSE a.fire_cd

\* An alien bullet is appended by this step.
AlienFired ==
    /\ Len(bullets') > Len(bullets)
    /\ bullets'[Len(bullets')].owner = "alien"

\* Alien i is the one that fired the bullet appended by this step.
ShooterOf(i) ==
    /\ aliens'[i].fire_cd > FireCdAfter(aliens[i])
    /\ bullets'[Len(bullets')].x = aliens[i].x + aliens[i].w \div 2 - proj_w \div 2
    /\ bullets'[Len(bullets')].y = aliens[i].y + aliens[i].h

\* C21: an alien bullet is appended only by the AlienFireSystem step, one
\* per step (so at most one per tick).  Its shooter is non-exploding, has
\* fire_cd = 0 when the shooter is selected (after this tick's countdown),
\* and no other non-exploding alien with fire_cd = 0 of the same column has
\* a larger row; the shooter leaves the step with a fire_cd > 0 of its own,
\* drawn from the shooter range whatever alien_fire_timer is set to, and no
\* other alien's fire_cd is raised.
C21_FrontLineShooter ==
    [][ AlienFired =>
          /\ Stepped("AlienFireSystem")
          /\ Len(bullets') = Len(bullets) + 1
          /\ SubSeq(bullets', 1, Len(bullets)) = bullets
          /\ Len(aliens') = Len(aliens)
          /\ \E i \in Idx(aliens) :
                /\ ShooterOf(i)
                /\ ~aliens[i].exploding
                /\ FireCdAfter(aliens[i]) = 0
                /\ \A j \in Idx(aliens) :
                      ( /\ ~aliens[j].exploding /\ FireCdAfter(aliens[j]) = 0
                        /\ aliens[j].col = aliens[i].col ) =>
                            aliens[j].row <= aliens[i].row
                /\ aliens'[i].fire_cd > 0
                /\ aliens'[i].fire_cd \in shooter_cd_min..shooter_cd_max
                /\ \A j \in Idx(aliens) \ {i} :
                      aliens'[j].fire_cd = FireCdAfter(aliens[j])
      ]_vars

\* The upper alien of a column has fired because the one below it was
\* still cooling down; its own cooldown and the global timer were drawn
\* from opposite ends of their ranges.
C21_Witness ==
    /\ frame > 0 /\ "AlienFireSystem" \in done /\ "BulletMoveSystem" \notin done
    /\ Len(bullets) > 0 /\ Len(aliens) = 3
    /\ bullets[Len(bullets)].id = next_id - 1
    /\ bullets[Len(bullets)].owner = "alien"
    /\ bullets[Len(bullets)].y = aliens[1].y + aliens[1].h
    /\ aliens[1].row = 3 /\ aliens[1].fire_cd = shooter_cd_max
    /\ aliens[2].row = 4 /\ aliens[2].col = aliens[1].col /\ aliens[2].fire_cd > 0
    /\ ~aliens[2].exploding
    /\ alien_fire_timer = alien_fire_cooldown_min

\* ------------------------------------------------------------------------
\* A top-row alien about to fire, alone or with one alien of another column
\* that has just fired; that alien's row sets the inferred row count (1..6).
\* ------------------------------------------------------------------------
InitVolley ==
    /\ InitFrame /\ OmegaIdle /\ TargetIdle /\ ShieldIdle
    /\ keys = {"SPACE"}
    /\ ship = ShipAt(120) /\ ship_fire_timer = 0
    /\ shelters = AllShelters(0)
    /\ aliens_direction = 1
    /\ alien_fire_timer \in {0, 10}
    /\ \/ aliens = << AlienAt(0, 1, 0, 0) >>
       \/ \E r \in 0..5 :
             aliens = << AlienAt(0, 1, 0, 0),
                         [AlienAt(r, 3, 0, 0) EXCEPT !.fire_cd = shooter_cd_min] >>
    /\ bullets = << >>
    /\ missiles = << >>
    /\ next_id = 1

SpecVolley == InitVolley /\ [][Next]_vars

\* C22: whatever the inferred row count (max row index + 1 over the
\* roster), a bullet fired by a shooter of row 0 is of variant C (it falls
\* at the speed of projectile C).
C22_TopRowFiresC ==
    [][ AlienFired =>
          \A i \in Idx(aliens) :
              (ShooterOf(i) /\ aliens[i].row = 0) =>
                  bullets'[Len(bullets')].vy = proj_speed_C
      ]_vars

\* ------------------------------------------------------------------------
\* The number of live alien-owned bullets in the world.
LiveAlienBullets ==
    Cardinality({ k \in Idx(bullets) : bullets[k].alive /\ bullets[k].owner = "alien" })

\* C23: when alien_fire_timer runs out in an AlienFireSystem step (timer -
\* dt <= 0, roster not empty) and max_alien_bullets or more alien bullets
\* are live, the step spawns nothing and sets alien_fire_timer to the retry
\* interval (0.15 s), not to a value of the random range.  While the timer
\* has not run out the step only counts it down and spawns nothing, so the
\* cap is looked at again after 0.15 s of accumulated dt, not every frame.
C23_SaturatedRetry ==
    [][ (Stepped("AlienFireSystem") /\ Len(aliens) > 0) =>
          /\ (alien_fire_timer - dt <= 0 /\ LiveAlienBullets >= max_alien_bullets) =>
                /\ bullets' = bullets
                /\ alien_fire_timer' = alien_fire_retry
                /\ alien_fire_timer' < alien_fire_cooldown_min
          /\ (alien_fire_timer - dt > 0) =>
                /\ bullets' = bullets
                /\ alien_fire_timer' = alien_fire_timer - dt
      ]_vars

\* The timer has just run out with the cap reached: it stands at the retry
\* interval and no bullet was added.
C23_Witness ==
    /\ frame = 1 /\ dt > 0
    /\ "AlienFireSystem" \in done /\ "BulletMoveSystem" \notin done
    /\ Len(aliens) > 0
    /\ LiveAlienBullets >= max_alien_bullets
    /\ alien_fire_timer = alien_fire_retry
    /\ next_id = 3

\* ------------------------------------------------------------------------
\* The ship free to move right under a beam that is idle, charging or
\* active; a charging or active beam was locked where the ship started.
\* ------------------------------------------------------------------------
InitLock ==
    /\ InitFrame /\ TargetIdle /\ ShieldIdle
    /\ keys = {"O", "RIGHT"}
    /\ ship = ShipAt(380) /\ ship_fire_timer = 0
    /\ bullets = << >> /\ missiles = << >> /\ next_id = 1
    /\ shelters = AllShelters(0)
    /\ alien_fire_timer = 100
    /\ aliens_direction = -1
    /\ aliens = << AlienAt(4, 5, 2, 0) >>
    /\ \/ OmegaIdle
       \/ /\ omega_active = FALSE /\ omega_timer = 0 /\ omega_cd_timer = 0
          /\ omega_x = Some(BeamX(ShipAt(380)))
          /\ omega_charge_timer \in {10, 20, charge_time}
       \/ /\ omega_active = TRUE /\ omega_cd_timer = 0
          /\ omega_x = Some(BeamX(ShipAt(380)))
          /\ omega_charge_timer = 0
          /\ omega_timer \in {10, 30, fire_time}

SpecLock == InitLock /\ [][Next]_vars

\* The beam is charging or active.
BeamHeld == omega_active \/ omega_charge_timer > 0

\* C24: from the step that starts the charge until the beam deactivates,
\* omega_x is the offset taken from the ship's center at charge start: the
\* charge start sets it from the ship, and no step that leaves the beam
\* charging or active changes it, wherever the ship moves.  While the beam
\* is charging or active the OmegaRaySystem step counts the running timer
\* down by dt and nothing else, with or without a fire_omega_ray intent:
\* the intent neither restarts nor shortens the charge or the active timer.
C24_BeamLock ==
    [][ /\ (~BeamHeld /\ BeamHeld') =>
              /\ Stepped("OmegaRaySystem") /\ intent.fire_omega_ray
              /\ omega_x' = Some(BeamX(ship))
              /\ omega_charge_timer' = charge_time
        /\ (BeamHeld /\ BeamHeld') => (omega_x' = omega_x /\ ~IsNone(omega_x))
        /\ (BeamHeld /\ ~Stepped("OmegaRaySystem")) =>
              (omega_charge_timer' = omega_charge_timer /\ omega_timer' = omega_timer)
        /\ (BeamHeld /\ Stepped("OmegaRaySystem") /\ ~omega_active) =>
              /\ omega_charge_timer' = omega_charge_timer - dt
              /\ omega_active' = (omega_charge_timer - dt <= 0)
              /\ omega_timer' = IF omega_charge_timer - dt <= 0 THEN fire_time
                                 ELSE omega_timer
        /\ (BeamHeld /\ Stepped("OmegaRaySystem") /\ omega_active) =>
              /\ omega_timer' = omega_timer - dt
              /\ omega_charge_timer' = omega_charge_timer
              /\ omega_active' = (omega_timer - dt > 0)
      ]_vars

\* A fire intent has arrived while the beam is held and the ship has moved
\* away from where the beam was locked.
C24_Witness ==
    /\ frame > 0 /\ dt > 0 /\ "OmegaRaySystem" \in done
    /\ "OmegaRayDamageSystem" \notin done
    /\ intent.fire_omega_ray
    /\ BeamHeld /\ ~IsNone(omega_x)
    /\ Val(omega_x) # BeamX(ship)
    /\ omega_charge_timer \notin {charge_time}

\* ------------------------------------------------------------------------
\* Targeting mode over a thinned-out formation: seven aliens of five rows,
\* one of them exploding; the cursor on the first, a middle or the last of
\* the non-exploding ones, unset, or past the end of a roster that shrank.
\* ------------------------------------------------------------------------
InitTarget ==
    /\ InitFrame /\ OmegaIdle /\ ShieldIdle
    /\ keys \in { {"A", "D"}, {"W", "S"}, {"T", "D", "S"} }
    /\ ship = ShipAt(120) /\ ship_fire_timer = 0
    /\ shelters = AllShelters(0)
    /\ aliens_direction = 1 /\ alien_fire_timer = 100
    /\ aliens = << AlienAt(0, 2, 0, 0), AlienAt(1, 3, 0, 0), AlienAt(2, 2, 0, 0),
                   [AlienAt(2, 3, 0, 0) EXCEPT !.exploding = TRUE,
                                               !.explode_timer = explosion_time],
                   AlienAt(2, 4, 0, 0), AlienAt(3, 1, 0, 0), AlienAt(4, 0, 0, 0) >>
    /\ bullets = << >> /\ missiles = << >>
    /\ missile_targeting = TRUE
    /\ missile_target_idx \in {None, Some(0), Some(2), Some(5), Some(6)}
    /\ missile_cd_timer = 0
    /\ next_id = 1

SpecTarget == InitTarget /\ [][Next]_vars

\* The direction the step cycles in: the first cycle intent of its chain.
CycleDir ==
    IF intent.missile_target_left THEN "left"
    ELSE IF intent.missile_target_right THEN "right"
    ELSE IF intent.missile_target_up THEN "up"
    ELSE IF intent.missile_target_down THEN "down"
    ELSE "none"

\* Alien a lies strictly on the requested side of cur.
OnSide(a, cur, dir) ==
    CASE dir = "left" -> a.col < cur.col
      [] dir = "right" -> a.col > cur.col
      [] dir = "up" -> a.row < cur.row
      [] dir = "down" -> a.row > cur.row

\* Alien a shares cur's row (left/right) or column (up/down).
OnAxis(a, cur, dir) ==
    IF dir \in {"left", "right"} THEN a.row = cur.row ELSE a.col = cur.col

Manhattan(a, cur) == Abs(a.row - cur.row) + Abs(a.col - cur.col)

\* The cursor the step starts from: unset counts as 0, and it is kept
\* inside the list of non-exploding aliens.
CursorNow ==
    Max(0, Min(Len(NotExploding(aliens)) - 1,
               IF IsNone(missile_target_idx) THEN 0 ELSE Val(missile_target_idx)))

\* C25: in targeting mode (no toggle this tick, some non-exploding alien),
\* a cycle intent moves the cursor only to a non-exploding alien strictly
\* on the requested side of the current target (by column for left/right,
\* by row for up/down); if some such alien shares the current target's row
\* (left/right) or column (up/down) the chosen one is such an alien of
\* least Manhattan distance, otherwise one of least Manhattan distance
\* among all of them; with no such alien the cursor stays where it is.
C25_TargetCycling ==
    [][ ( /\ Stepped("MissileTargetSystem")
          /\ missile_targeting /\ ~intent.toggle_missile_target
          /\ Len(NotExploding(aliens)) > 0
          /\ CycleDir # "none" ) =>
          LET alive == NotExploding(aliens)
              cur == alive[CursorNow + 1]
              cand == { k \in Idx(alive) : k # CursorNow + 1
                                           /\ OnSide(alive[k], cur, CycleDir) }
              axis == { k \in cand : OnAxis(alive[k], cur, CycleDir) }
              pool == IF axis # {} THEN axis ELSE cand
          IN  /\ missile_targeting'
              /\ IF cand = {} THEN missile_target_idx' = Some(CursorNow)
                 ELSE \E k \in pool :
                        /\ missile_target_idx' = Some(k - 1)
                        /\ \A j \in pool :
                              Manhattan(alive[k], cur) <= Manhattan(alive[j], cur)
      ]_vars

\* The cursor has gone right from the alien of row 2, column 2 to the one
\* of row 2, column 4: past the exploding alien of column 3, and not to the
\* nearer-or-equal alien of row 1, column 3.
C25_Witness ==
    /\ frame = 1 /\ "MissileTargetSystem" \in done /\ "AlienSystem" \notin done
    /\ intent.missile_target_right /\ ~intent.missile_target_left
    /\ ~intent.toggle_missile_target
    /\ missile_targeting
    /\ missile_target_idx = Some(3)
    /\ NotExploding(aliens)[4].row = 2 /\ NotExploding(aliens)[4].col = 4

\* ------------------------------------------------------------------------
\* Alien bullets coming down on the ship, which is intact or already
\* exploding (its texture blanked and remembered), the shield down or up.
\* ------------------------------------------------------------------------
InitWreck ==
    /\ InitFrame /\ OmegaIdle /\ TargetIdle
    /\ keys = {"C"}
    /\ \/ /\ ship = ShipAt(120)
          /\ bullets \in { << >>, << AlienShot(1, 500) >>,
                           << AlienShot(1, 500), AlienShot(2, 460) >> }
       \/ /\ \E t \in {10, 20, ship_explosion_time} :
                ship = [ShipAt(120) EXCEPT !.exploding = TRUE, !.explode_timer = t,
                                           !.texture = None]
          /\ bullets \in { << >>, << AlienShot(7, 480) >>, << AlienShot(7, 500) >> }
    /\ ship_fire_timer = 0
    /\ \/ ShieldIdle
       \/ /\ shield_active = TRUE /\ shield_timer \in {10, shield_duration}
          /\ shield_cd_timer = shield_timer + (shield_cooldown - shield_duration)
    /\ shelters = AllShelters(0)
    /\ aliens_direction = 1 /\ alien_fire_timer = 100
    /\ aliens = << AlienAt(4, 1, 0, 0) >>
    /\ missiles = << >>
    /\ next_id = 8

SpecWreck == InitWreck /\ [][Next]_vars

\* C26: the ship starts exploding only by a BulletShipCollisionSystem step
\* with the shield inactive and a live alien bullet on it; that step sets
\* explode_timer = ship_explosion_time, remembers the texture shown just
\* before the hit and blanks it.  The remembered texture is kept for as long
\* as the ship explodes.  The ship stops exploding only by the
\* ShipExplosionSystem step in which the timer runs out, which puts the
\* remembered texture back; so whenever the ship is not exploding it shows
\* the texture it had before the hit, after any number of hits and
\* recoveries.
C26_ShipExplosionRoundTrip ==
    [][ /\ (~ship.exploding /\ ship'.exploding) =>
              /\ Stepped("BulletShipCollisionSystem") /\ ~shield_active
              /\ \E i \in Idx(bullets) :
                    /\ bullets[i].alive /\ bullets[i].owner = "alien"
                    /\ Intersects(ShipRect(ship), Rect(bullets[i]))
              /\ ship'.explode_timer = ship_explosion_time
              /\ ship'.base_texture = ship.texture
              /\ ship'.texture = None
        /\ (ship.exploding /\ ship'.exploding) =>
              (ship'.base_texture = ship.base_texture /\ ship'.texture = None)
        /\ (ship.exploding /\ ~ship'.exploding) =>
              /\ Stepped("ShipExplosionSystem")
              /\ ship.explode_timer - dt <= 0
              /\ ship'.texture = ship.base_texture
        /\ (~ship.exploding /\ ~ship'.exploding) => ship'.texture = ship.texture
        /\ ~ship'.exploding => ship'.texture = Some(TexPlayer)
      ]_vars

\* The ship has recovered from the explosion it started in and has been
\* hit again, by the bullet that was on its way during that explosion.
C26_Witness ==
    /\ frame = 2 /\ "BulletShipCollisionSystem" \in done
    /\ "ShipExplosionSystem" \notin done
    /\ ship.exploding /\ ship.explode_timer = ship_explosion_time
    /\ ship.texture = None /\ ship.base_texture = Some(TexPlayer)
    /\ 7 \in hits

\* ------------------------------------------------------------------------
\* The aliens the ExplosionSystem step keeps: those not exploding, and
\* those exploding with time left after this tick.
Survives(a) == ~a.exploding \/ a.explode_timer - dt > 0

\* C27: an ExplosionSystem step takes dt off the explode_timer of every
\* exploding alien and drops from the roster, in that very step, those whose
\* timer has thereby reached <= 0; the others stay, in order, the
\* non-exploding ones untouched.  At the end of every frame no alien of the
\* roster is exploding with explode_timer <= 0.
C27_ExplodedAliensDropped ==
    /\ [][ Stepped("ExplosionSystem") =>
            LET kept == SelectSeq(aliens, Survives)
            IN  /\ Len(aliens') = Len(kept)
                /\ \A k \in Idx(kept) :
                      aliens'[k] = IF kept[k].exploding
                                   THEN [kept[k] EXCEPT !.explode_timer = @ - dt]
                                   ELSE kept[k]
                /\ \A i \in Idx(aliens) :
                      (aliens[i].exploding /\ aliens[i].explode_timer - dt <= 0) =>
                          \A k \in Idx(aliens') : aliens'[k].id # aliens[i].id
          ]_vars
    /\ [](FrameOver =>
            \A i \in Idx(aliens) :
                aliens[i].exploding => aliens[i].explode_timer > 0)

\* An alien that was exploding when the frame began has been dropped by
\* this frame's ExplosionSystem step: the roster is empty and nothing was
\* hit in this frame.
C27_Witness ==
    /\ frame = 2 /\ dt = 10
    /\ "ExplosionSystem" \in done /\ "MissileCullSystem" \notin done
    /\ aliens = << >>
    /\ hits = {}

\* ------------------------------------------------------------------------
\* C28: when no non-exploding alien exists, the MissileTargetSystem step
\* leaves missile_targeting false and missile_target_idx None whatever the
\* toggle and cycle intents, and the MissileSpawnSystem step launches
\* nothing whatever the launch intent; the AlienSystem step on an empty
\* roster changes neither aliens_direction nor the roster.  None of these
\* steps raises an error.
\* ------------------------------------------------------------------------
C28_EmptyRosterNoOp ==
    [][ /\ (Stepped("MissileTargetSystem") /\ Len(NotExploding(aliens)) = 0) =>
              /\ missile_targeting' = FALSE
              /\ missile_target_idx' = None
              /\ ~crashed'
        /\ (Stepped("MissileSpawnSystem") /\ Len(NotExploding(aliens)) = 0) =>
              /\ missiles' = missiles
              /\ missile_targeting' = missile_targeting
              /\ missile_cd_timer' = missile_cd_timer
              /\ ~crashed'
        /\ (Stepped("AlienSystem") /\ Len(aliens) = 0) =>
              /\ aliens' = aliens
              /\ aliens_direction' = aliens_direction
              /\ ~crashed'
      ]_vars

\* The last alien is gone; targeting, which was on with the cursor set, has
\* been switched off and the cursor cleared in a tick with both the toggle
\* and the launch key pressed, and nothing was launched.
C28_Witness ==
    /\ frame = 2 /\ "AlienSystem" \in done /\ "AlienFireSystem" \notin done
    /\ intent.toggle_missile_target /\ intent.missile_launch
    /\ aliens = << >>
    /\ missile_targeting = FALSE /\ missile_target_idx = None
    /\ missile_cd_timer = 0
    /\ \A i \in Idx(missiles) : missiles[i].id < 3
    /\ ~crashed

\* ------------------------------------------------------------------------
\* Every alien drops by drop_step and none changes x.
AllDrop ==
    \A i \in Idx(aliens) :
        aliens'[i].y = aliens[i].y + drop_step /\ aliens'[i].x = aliens[i].x

\* Every alien moves by its velocity times dt and none changes y.
AllSlide ==
    \A i \in Idx(aliens) :
        /\ aliens'[i].y = aliens[i].y
        /\ aliens'[i].x = Advance(aliens[i].x, aliens_direction * aliens[i].speed, dt)

\* The offset between two aliens is the one their rows and columns gave
\* them when the formation was built.
SpawnOffset(a, b) ==
    /\ a.x - b.x = (a.col - b.col) * (alien_w + 18)
    /\ a.y - b.y = (a.row - b.row) * (alien_h + 18)

\* C29: the wall decision of an AlienSystem step is one decision for the
\* whole roster: either every alien drops and none moves horizontally (and
\* the direction reverses), or every alien moves horizontally and none
\* drops.  Aliens of equal speed therefore keep, after every step, the
\* offset from one another that they had at spawn, for as long as both are
\* in the roster.
C29_RigidFormation ==
    /\ [][ (Stepped("AlienSystem") /\ Len(aliens) > 0) =>
            /\ Len(aliens') = Len(aliens)
            /\ \/ AllDrop /\ aliens_direction' = -aliens_direction
               \/ AllSlide /\ aliens_direction' = aliens_direction
          ]_vars
    /\ [](\A i, j \in Idx(aliens) :
            aliens[i].speed = aliens[j].speed => SpawnOffset(aliens[i], aliens[j]))

\* The formation, one of its two aliens exploding, has just dropped at a
\* wall: the velocity set by the step points against the new direction.
C29_Witness ==
    /\ frame = 2 /\ dt > 0
    /\ "AlienSystem" \in done /\ "ExplosionSystem" \notin done
    /\ Len(aliens) = 2
    /\ aliens[2].exploding /\ ~aliens[1].exploding
    /\ aliens[1].vx = -aliens_direction * alien_speed
    /\ aliens[2].vx = aliens[1].vx

\* ------------------------------------------------------------------------
\* The game running on without end: after the last counted frame the driver
\* keeps starting frames (the frame counter stays at its cap), each with a
\* dt > 0.  The roster is empty, so the world outside the beam stands still.
\* ------------------------------------------------------------------------
BeginFrameForever ==
    /\ ~crashed
    /\ FrameOver
    /\ frame' = Min(frame + 1, MaxFrames)
    /\ done' = {}
    /\ hits' = {}
    /\ orphans' = { missiles[i].id : i \in { k \in Idx(missiles) :
                       /\ missiles[k].alive
                       /\ ~IsNone(missiles[k].target_id)
                       /\ IsNone(AliveById(aliens, missiles[k].target_id)) } }
    /\ \E d \in DtSet \ {0} : dt' = d
    /\ \E K \in SUBSET keys : intent' = IntentOf(K)
    /\ UNCHANGED << keys, pipeline, crashed, next_id, ship, aliens, aliens_direction,
                    bullets, missiles, shelters, effects, ship_fire_timer,
                    alien_fire_timer, omegaVars, targetVars, shieldVars >>

NextForever ==
    \/ BeginFrameForever
    \/ ShipSystem_step
    \/ MissileTargetSystem_step
    \/ ShieldSystem_step
    \/ BulletSpawnSystem_step
    \/ MissileSpawnSystem_step
    \/ AlienSystem_step
    \/ AlienFireSystem_step
    \/ OmegaRaySystem_step
    \/ BulletMoveSystem_step
    \/ BulletCullSystem_step
    \/ MissileHomingSystem_step
    \/ BulletMissileCollisionSystem_step
    \/ BulletBulletCollisionSystem_step
    \/ BulletShelterCollisionSystem_step
    \/ BulletShieldCollisionSystem_step
    \/ OmegaRayDamageSystem_step
    \/ BulletAlienCollisionSystem_step
    \/ BulletShipCollisionSystem_step
    \/ MissileAlienCollisionSystem_step
    \/ ShipExplosionSystem_step
    \/ ExplosionSystem_step
    \/ MissileCullSystem_step
    \/ EffectsSystem_step
    \/ SpaceInvadersRenderSystem_step

InitBeamForever ==
    /\ InitFrame /\ OmegaIdle /\ TargetIdle /\ ShieldIdle
    /\ keys = {"O"}
    /\ ship = ShipAt(380) /\ ship_fire_timer = 0
    /\ bullets = << >> /\ missiles = << >> /\ next_id = 1
    /\ shelters = AllShelters(0)
    /\ alien_fire_timer = 100
    /\ aliens_direction = -1
    /\ aliens = << >>

\* The driver never stops calling the frame, and a frame steps every system.
SpecBeamForever == InitBeamForever /\ [][NextForever]_vars /\ WF_vars(NextForever)

\* C30: with ticks going on for ever, each with dt > 0, a charging beam
\* eventually becomes active; an active beam eventually deactivates, with
\* omega_active false, omega_x cleared and the cooldown timer started at
\* omega_cooldown; and a running cooldown timer eventually returns to 0,
\* where a fire intent is accepted again.
C30_BeamProgress ==
    /\ (~omega_active /\ omega_charge_timer > 0) ~> omega_active
    /\ omega_active ~>
          (~omega_active /\ omega_x = None /\ omega_cd_timer = omega_cooldown)
    /\ (omega_cd_timer > 0) ~> (omega_cd_timer = 0 /\ ~omega_active)

\* The beam is idle again after a whole cycle: the charge timer and the
\* active timer show the overshoot of their expiry, the cooldown is back at 0.
C30_Witness ==
    /\ ~omega_active /\ omega_x = None
    /\ omega_charge_timer = -10 /\ omega_timer = -10
    /\ omega_cd_timer = 0
    /\ "OmegaRaySystem" \in done

\* ------------------------------------------------------------------------
\* The systems from order 44 on as functions of the part of the world they
\* read and write, so that the orders in which systems of equal `order` may
\* step can be compared from one and the same state.
\* ------------------------------------------------------------------------
World == [ bullets |-> bullets, aliens |-> aliens, missiles |-> missiles,
           ship |-> ship, effects |-> effects ]

\* The aliens of the index set V set exploding.
Marked(as, V) ==
    [ j \in Idx(as) |->
        IF j \in V THEN [as[j] EXCEPT !.exploding = TRUE,
                                      !.explode_timer = explosion_time]
        ELSE as[j] ]

PassOf(s, w) ==
    CASE s = "BulletShieldCollisionSystem" ->
            IF shield_active
            THEN LET r == BulletShieldLoop(
                              [bs |-> w.bullets, fx |-> w.effects, hit |-> {}],
                              w.ship, 1)
                 IN  [w EXCEPT !.bullets = r.bs, !.effects = r.fx]
            ELSE w
      [] s = "OmegaRayDamageSystem" ->
            [w EXCEPT !.aliens =
                Marked(@, BeamVictims(w.aliens, omega_active, omega_x, w.ship))]
      [] s = "BulletAlienCollisionSystem" ->
            LET r == BulletAlienLoop([bs |-> w.bullets, as |-> w.aliens, hit |-> {}], 1)
            IN  [w EXCEPT !.bullets = r.bs, !.aliens = r.as]
      [] s = "BulletShipCollisionSystem" ->
            LET H == ShipHitters(w.ship, w.bullets, shield_active)
            IN  IF H = {} THEN w
                ELSE [w EXCEPT !.bullets = Kill(@, First(H)),
                               !.ship = ShipStruck(@)]
      [] s = "MissileAlienCollisionSystem" ->
            LET gone == { i \in Idx(w.missiles) :
                            MissileFate(w.missiles[i], w.aliens) # "skip" }
            IN  [w EXCEPT !.missiles = [ i \in Idx(@) |->
                                IF i \in gone THEN [@[i] EXCEPT !.alive = FALSE]
                                ELSE @[i] ],
                          !.aliens = Marked(@, MissileStruck(w.missiles, w.aliens))]
      [] s = "ShipExplosionSystem" ->
            IF ~w.ship.exploding THEN w
            ELSE LET t1 == Max(0, w.ship.explode_timer - dt)
                 IN  IF t1 <= 0
                     THEN [w EXCEPT !.ship.explode_timer = t1,
                                    !.ship.exploding = FALSE,
                                    !.ship.texture = w.ship.base_texture]
                     ELSE [w EXCEPT !.ship.explode_timer = t1]
      [] s = "ExplosionSystem" ->
            [w EXCEPT !.aliens = ExplosionTick(@, dt)]
      [] s = "MissileCullSystem" ->
            [w EXCEPT !.missiles = Cull(@)]
      [] s = "EffectsSystem" ->
            [w EXCEPT !.effects =
                SelectSeq([ i \in Idx(@) |-> [@[i] EXCEPT !.ttl = @ - dt] ],
                          LAMBDA e : e.ttl > 0)]
      [] OTHER -> w

\* The world after the systems of seq have stepped in that order.
RECURSIVE RunAll(_, _)
RunAll(seq, w) ==
    IF seq = << >> THEN w ELSE RunAll(Tail(seq), PassOf(Head(seq), w))

\* The orders in which the systems of S can step.
Perms(S) ==
    { f \in [1..Cardinality(S) -> S] :
        \A i, j \in 1..Cardinality(S) : i # j => f[i] # f[j] }

\* The systems sharing the given `order` value.
TieGroup(n) == { s \in Systems : Order[s] = n }

\* Every order of the rest of the frame that respects `order`, from the
\* first tie (44) to the last system that writes the world (90).
FrameTails ==
    { p44 \o p45 \o p46 \o << "MissileCullSystem", "EffectsSystem" >> :
        p44 \in Perms(TieGroup(44)), p45 \in Perms(TieGroup(45)),
        p46 \in Perms(TieGroup(46)) }

\* C31: the world at the end of a frame does not depend on the order in
\* which systems of equal `order` step: from the state in which the systems
\* of order 44 are next, every order of the ties at 44, 45 and 46 leads to
\* the same bullets, aliens, missiles, ship and effects.
C31_TieOrderIndependence ==
    ( /\ frame > 0 /\ pipeline = Systems
      /\ \A s \in Systems : (s \in done) = (Order[s] < 44) ) =>
        \A o1, o2 \in FrameTails : RunAll(o1, World) = RunAll(o2, World)

\* ------------------------------------------------------------------------
\* The target cursor while aliens die
\* ------------------------------------------------------------------------
\* Targeting mode is on and the cursor rests on the first, second or last
\* non-exploding alien of the bottom row; a ship bullet may be on its way to
\* the first alien of the roster.
InitCursor ==
    /\ InitFrame /\ OmegaIdle /\ ShieldIdle
    /\ keys = {"T", "M"}
    /\ ship = ShipAt(120) /\ ship_fire_timer = ship_fire_cooldown
    /\ shelters = AllShelters(0)
    /\ aliens_direction = 1 /\ alien_fire_timer = 100
    /\ aliens \in { << AlienAt(4, 1, 0, 0), AlienAt(4, 3, 0, 0) >>,
                    << AlienAt(4, 1, 0, 0), AlienAt(4, 3, 0, 0), AlienAt(4, 5, 0, 0) >> }
    /\ bullets \in { << >>, << ShipShot(1, 300) >>, << ShipShot(1, 352) >> }
    /\ missiles = << >>
    /\ missile_targeting \in BOOLEAN
    /\ missile_target_idx \in { Some(i) : i \in 0..(Len(aliens) - 1) }
    /\ missile_cd_timer \in {0, 10}
    /\ next_id = 3

SpecCursor == InitCursor /\ [][Next]_vars

\* C32: at the end of every frame, if targeting mode is on then the cursor is
\* set and is an index into the list of non-exploding aliens, so the lookup
\* DrawMissileTarget makes is in range.
C32_CursorValidAtRender ==
    (frame > 0 /\ FrameOver /\ missile_targeting) =>
        /\ ~IsNone(missile_target_idx)
        /\ 0 <= Val(missile_target_idx)
        /\ Val(missile_target_idx) < Len(NotExploding(aliens))

\* The render system's lookup raised IndexError.
RenderLookupInRange == ~crashed

\* C33: whenever MissileSpawnSystem honours a launch (launch intent,
\* targeting on, cooldown elapsed) the cursor it reads is an index into the
\* list of non-exploding aliens, also after aliens died and when targeting was
\* toggled in the tick of the launch.
C33_LaunchLookupInRange ==
    [][ ( /\ Stepped("MissileSpawnSystem")
          /\ "MissileSpawnSystem" \in pipeline
          /\ Launches(intent, missile_targeting, missile_cd_timer,
                      NotExploding(aliens), missile_target_idx) ) =>
            /\ 0 <= Val(missile_target_idx)
            /\ Val(missile_target_idx) < Len(NotExploding(aliens))
            /\ ~crashed' ]_vars

\* A missile was launched in the second tick, with targeting toggled on in
\* that tick, after the first alien of the roster was shot while the cursor
\* was left on the last index.
C33_Witness ==
    /\ frame = 2 /\ "MissileSpawnSystem" \in done
    /\ intent.toggle_missile_target /\ intent.missile_launch
    /\ \E i \in Idx(missiles) : missiles[i].id >= 3
    /\ Len(NotExploding(aliens)) < 2
    /\ missile_target_idx = Some(0)

\* The alien the cursor designates: the one DrawMissileTarget frames and
\* MissileSpawnSystem would launch at.
Designated ==
    IF /\ missile_targeting
       /\ ~IsNone(missile_target_idx)
       /\ Val(missile_target_idx) < Len(NotExploding(aliens))
    THEN Some(NotExploding(aliens)[Val(missile_target_idx) + 1].id)
    ELSE None

NoCycleIntent(it) ==
    /\ ~it.missile_target_left /\ ~it.missile_target_right
    /\ ~it.missile_target_up /\ ~it.missile_target_down

\* C34: while targeting mode stays on and no cycle intent is given, the
\* cursor keeps designating the same alien as long as that alien is not
\* exploding, whichever other aliens start exploding or leave the roster.
C34_CursorStability ==
    [][ ( /\ missile_targeting /\ missile_targeting'
          /\ NoCycleIntent(intent) /\ NoCycleIntent(intent')
          /\ ~IsNone(Designated)
          /\ \E i \in Idx(aliens') : /\ aliens'[i].id = Val(Designated)
                                     /\ ~aliens'[i].exploding ) =>
            Designated' = Designated ]_vars

\* C35: every alien of the roster keeps 0 < x and x + width < viewport
\* width, whatever dt the AlienSystem steps with and whichever aliens are
\* removed on the way.
C35_FormationInsideField ==
    \A i \in Idx(aliens) : 0 < aliens[i].x /\ aliens[i].x + aliens[i].w < vw

\* The formation stepped towards the right wall with dt > 0 from one pixel
\* short of it, and turned round instead of moving.
C35_Witness ==
    /\ frame > 0 /\ dt > 0 /\ "AlienSystem" \in done
    /\ aliens_direction = -1
    /\ \E i \in Idx(aliens) : /\ aliens[i].vx > 0
                              /\ aliens[i].x + aliens[i].w = vw - 1

\* The beam's three phases.
BeamCharging == omega_charge_timer > 0
BeamCooling == omega_cd_timer > 0
BeamPhases == { ph \in {"charging", "active", "cooling"} :
                   \/ ph = "charging" /\ BeamCharging
                   \/ ph = "active" /\ omega_active
                   \/ ph = "cooling" /\ BeamCooling }

\* C36: after every OmegaRaySystem step at most one of charging, active and
\* cooling down holds, and omega_x is set exactly when the beam is charging
\* or active.
C36_BeamPhasesExclusive ==
    (frame > 0 /\ "OmegaRaySystem" \in done /\ "OmegaRaySystem" \in pipeline) =>
        /\ Cardinality(BeamPhases) <= 1
        /\ ~IsNone(omega_x) <=> (BeamCharging \/ omega_active)

\* The step refused a fire intent because the beam was cooling down.
C36_Witness ==
    /\ frame > 0 /\ "OmegaRaySystem" \in done
    /\ intent.fire_omega_ray
    /\ BeamPhases = {"cooling"}
    /\ IsNone(omega_x)

\* The alien of a roster with the given identity, if it is there.
AlienById(as, id) == { i \in Idx(as) : as[i].id = id }

\* C37: no step adds an alien to the roster; an exploding alien that is still
\* in the roster after a step is still exploding and its explode_timer has
\* not grown, whatever hit it again; and an alien leaves the roster only when
\* it was exploding and the tick's dt used up its timer.
C37_AlienDeathIrreversible ==
    [][ /\ \A j \in Idx(aliens') : AlienById(aliens, aliens'[j].id) # {}
        /\ Len(aliens') <= Len(aliens)
        /\ \A i \in Idx(aliens) :
              LET after == AlienById(aliens', aliens[i].id)
              IN  /\ (aliens[i].exploding /\ after # {}) =>
                        \A j \in after :
                            /\ aliens'[j].exploding
                            /\ aliens'[j].explode_timer <= aliens[i].explode_timer
                  /\ after = {} =>
                        /\ aliens[i].exploding
                        /\ aliens[i].explode_timer - dt <= 0 ]_vars

\* The active beam's strip still covers an alien it struck in an earlier
\* tick: the alien is exploding with part of its timer used up after the
\* damage system has stepped again.
C37_Witness ==
    /\ frame = 2 /\ "OmegaRayDamageSystem" \in done
    /\ omega_active /\ ~IsNone(omega_x)
    /\ \E i \in Idx(aliens) :
          /\ aliens[i].exploding
          /\ aliens[i].explode_timer > 0
          /\ aliens[i].explode_timer < explosion_time
          /\ Intersects(BeamRect(Val(omega_x), ship), Rect(aliens[i]))

\* C38: a BulletShipCollisionSystem step that finds the ship exploding marks
\* no bullet dead and leaves the ship as it is; the remembered appearance is
\* never the blank explosion appearance; while the ship explodes its timer
\* only goes down, by dt in each ShipExplosionSystem step, and the explosion
\* ends in the step in which the timer is used up.
C38_NoHitWhileExploding ==
    /\ [][ /\ (Stepped("BulletShipCollisionSystem") /\ ship.exploding) =>
                 (bullets' = bullets /\ ship' = ship)
           /\ (ship.exploding /\ ship'.exploding) =>
                 /\ ship'.explode_timer <= ship.explode_timer
                 /\ ship'.base_texture = ship.base_texture
           /\ (Stepped("ShipExplosionSystem") /\ ship.exploding
                 /\ "ShipExplosionSystem" \in pipeline) =>
                 /\ ship'.explode_timer = Max(0, ship.explode_timer - dt)
                 /\ ship'.exploding = (ship.explode_timer - dt > 0) ]_vars
    /\ [](~IsNone(ship.base_texture))

\* The collision step has run on a ship that was already exploding, with
\* the shield down and a live alien bullet on the ship.
C38_Witness ==
    /\ frame > 0 /\ "BulletShipCollisionSystem" \in done
    /\ "ShipExplosionSystem" \notin done
    /\ ship.exploding /\ ship.explode_timer < ship_explosion_time
    /\ ~shield_active
    /\ \E i \in Idx(bullets) : /\ Live(bullets[i], "alien")
                               /\ Intersects(ShipRect(ship), Rect(bullets[i]))

\* ------------------------------------------------------------------------
\* The ship's bullets in flight.
ShipBullets(bs) == { i \in Idx(bs) : bs[i].owner = "ship" }

\* The ticks to come: a fire intent and a dt for each.
MaxRun == MaxFrames
TickInputs == [ fire : BOOLEAN, d : DtSet ]
Runs == [1..MaxRun -> TickInputs]

\* BulletSpawnSystem stepped over a run of ticks from the given timer: every
\* spawn that follows an earlier spawn of the run comes after at least
\* ship_fire_cooldown of dt, summed over the ticks after the earlier spawn up
\* to and including its own.  since is the dt summed since the last spawn of
\* the run, None before the first.
RECURSIVE SpacedOut(_, _, _)
SpacedOut(timer, since, run) ==
    IF run = << >> THEN TRUE
    ELSE LET r == ShipFire(timer, Head(run).fire, Head(run).d)
             acc == IF IsNone(since) THEN None ELSE Some(Val(since) + Head(run).d)
         IN  /\ r.spawn => (IsNone(acc) \/ Val(acc) >= ship_fire_cooldown)
             /\ SpacedOut(r.timer, IF r.spawn THEN Some(0) ELSE acc, Tail(run))

\* C39: a tick spawns at most one ship bullet, and only BulletSpawnSystem
\* spawns any; a spawn happens only when the cooldown timer is used up by
\* this tick's dt and puts it back to ship_fire_cooldown; the timer loses at
\* most dt per tick and nothing else touches it; and after a spawn, for every
\* run of intents and dt values in the ticks that follow, the next spawn (and
\* each one after it) comes after at least ship_fire_cooldown of accumulated
\* dt.
C39_PrimaryWeaponRateLimit ==
    [][ LET n0 == Cardinality(ShipBullets(bullets))
            n1 == Cardinality(ShipBullets(bullets'))
        IN  IF Stepped("BulletSpawnSystem")
            THEN /\ n1 <= n0 + 1
                 /\ n1 = n0 + 1 =>
                       /\ intent.fire_bullet
                       /\ ship_fire_timer - dt <= 0
                       /\ \A run \in Runs : SpacedOut(ship_fire_timer', Some(0), run)
                 /\ n1 = n0 => ship_fire_timer' >= ship_fire_timer - dt
            ELSE /\ n1 <= n0
                 /\ ship_fire_timer' = ship_fire_timer ]_vars

\* Two ship bullets are in flight, the second spawned in the second tick,
\* whose dt used up the whole cooldown the first spawn had set.
C39_Witness ==
    /\ frame = 2 /\ dt = ship_fire_cooldown
    /\ "BulletSpawnSystem" \in done
    /\ Cardinality(ShipBullets(bullets)) = 2
    /\ ship_fire_timer = ship_fire_cooldown

\* ------------------------------------------------------------------------
\* The ship below the first shelter, firing or not; a ship bullet about to
\* fly through the shelter and an alien bullet about to fall on it.
InitShelter ==
    /\ InitFrame /\ OmegaIdle /\ TargetIdle /\ ShieldIdle /\ NoAliens
    /\ keys = {"SPACE"}
    /\ ship = ShipAt(120) /\ ship_fire_timer \in {0, ship_fire_cooldown}
    /\ \E dmg \in {0, max_damage - 1, max_damage} : shelters = AllShelters(dmg)
    /\ bullets \in { << >>, << ShipShot(1, 520) >>, << AlienShot(2, 380) >>,
                     << ShipShot(1, 520), AlienShot(2, 380) >>,
                     << ShipShot(1, 572), AlienShot(2, 425) >> }
    /\ missiles = << >>
    /\ next_id = 3

SpecShelter == InitShelter /\ [][Next]_vars

\* The live bullets of an owner that lie on a shelter still standing.
OnShelter(bs, ss, owner) ==
    { i \in Idx(bs) : /\ Live(bs[i], owner)
                      /\ \E j \in Idx(ss) : /\ ss[j].alive
                                            /\ Intersects(Rect(bs[i]), Rect(ss[j])) }

\* C40: the BulletShelterCollisionSystem step leaves every ship-owned bullet
\* as it is, and changes a shelter only if a live alien-owned bullet lies on
\* a standing shelter; no other step changes a shelter; the shelter
\* collection never grows.
C40_SheltersOnlyAlienBullets ==
    [][ /\ Len(shelters') <= Len(shelters)
        /\ IF Stepped("BulletShelterCollisionSystem")
           THEN /\ Len(bullets') = Len(bullets)
                /\ \A i \in Idx(bullets) :
                      bullets[i].owner = "ship" => bullets'[i] = bullets[i]
                /\ OnShelter(bullets, shelters, "alien") = {} => shelters' = shelters
           ELSE shelters' = shelters ]_vars

\* The shelter pass has stepped with a live ship bullet lying on a standing
\* shelter and no alien bullet on any: the bullet is still alive and the
\* shelters are undamaged.
C40_Witness ==
    /\ frame > 0 /\ "BulletShelterCollisionSystem" \in done
    /\ "BulletShieldCollisionSystem" \notin done
    /\ OnShelter(bullets, shelters, "ship") # {}
    /\ OnShelter(bullets, shelters, "alien") = {}
    /\ \A j \in Idx(shelters) : shelters[j].damage = 0 /\ shelters[j].alive

====
